---- MODULE Spec2Model ----
(***************************************************************************)
(* A model of vt.js: the screen model of term.js (buffer, cursor, modes,   *)
(* scroll region, tabs, alternate-screen slot, dirty range, notifications) *)
(* driven by the sequences that vt.js dispatches.                          *)
(*                                                                         *)
(* The terminal's private members (`my.*`) are the variables.  Handlers    *)
(* are operators over a record `t` of these members, composed the way the  *)
(* code composes its calls; `t.err` is set when a statement throws, and    *)
(* every later statement of the same `vt.read` is then skipped, as the     *)
(* exception unwinds to the try/catch of the pty data handler.             *)
(*                                                                         *)
(* JavaScript object identity matters (save_cursor stores a reference, the *)
(* alternate-screen slot aliases buffer, cursor, scroll and tabs): cursor  *)
(* objects live in `heap` and are named by references; for buffer, scroll  *)
(* and tabs the slot records whether it still names the current object.    *)
(*                                                                         *)
(* A function of the code is a composition of operators, one per statement *)
(* or group of statements, each taking the record the previous one left.   *)
(***************************************************************************)
EXTENDS Integers, Sequences, FiniteSets

(***************************************************************************)
(* Bounds of the model.                                                    *)
(***************************************************************************)
MaxCols == 3      \* geometries have 1..MaxCols columns
MaxRows == 2      \* and 1..MaxRows rows
MaxSteps == 4     \* sequences fed and resize calls made since construction
MaxParam == 2     \* largest numeric CSI parameter fed

(***************************************************************************)
(* Program constants.                                                      *)
(***************************************************************************)
\* 256 | (257 << 9) | (CHAR_ATTRS.NULL << 18)
DEFAULT_ATTR == 131840

Null == 0         \* the null reference

\* CURSOR_STATE and TERM_MODE: a bit field is the set of the bits set in it
WRAPNEXT == "WRAPNEXT"
ORIGIN == "ORIGIN"

WRAP == "WRAP"
INSERT == "INSERT"
ALTSCREEN == "ALTSCREEN"

IS_SET(x, bit) == bit \in x
SET(x, bit) == x \cup {bit}
UNSET(x, bit) == x \ {bit}

\* SET and UNSET on a number (cursor.attr): x | bit and x & ~bit
RECURSIVE BitAnd(_, _)
BitAnd(a, b) ==
    IF a = 0 \/ b = 0 THEN 0
    ELSE (a % 2) * (b % 2) + 2 * BitAnd(a \div 2, b \div 2)

SET_attr(x, bit) == x + bit - BitAnd(x, bit)
UNSET_attr(x, bit) == x - BitAnd(x, bit)

(***************************************************************************)
(* JavaScript built-ins used by term.js, on 0-based indices.               *)
(***************************************************************************)
\* a hole of a sparse array (reads as `undefined`)
Hole == <<-1, "undefined">>

clamp(v, min, max) == IF v < min THEN min ELSE IF v > max THEN max ELSE v

\* a.splice(i, 0, e)
SpliceIns(a, i, e) ==
    LET k == IF i > Len(a) THEN Len(a) ELSE i
    IN  SubSeq(a, 1, k) \o <<e>> \o SubSeq(a, k + 1, Len(a))

\* a.splice(i, 1)
SpliceDel(a, i) ==
    IF i >= Len(a) THEN a
    ELSE SubSeq(a, 1, i) \o SubSeq(a, i + 2, Len(a))

\* a[i] = e
SetAt(a, i, e) ==
    IF i < Len(a) THEN [a EXCEPT ![i + 1] = e]
    ELSE a \o [k \in 1..(i - Len(a)) |-> Hole] \o <<e>>

Min2(a, b) == IF a < b THEN a ELSE b
Max2(a, b) == IF a > b THEN a ELSE b

(***************************************************************************)
(* Cursor objects.                                                         *)
(***************************************************************************)
Refs == 1..3

\* a heap slot no reference names
Free == [x |-> -1, y |-> -1, attr |-> 0, state |-> {}]

\* the slot of the alternate screen when `my.saved_screen` is null
NoScreen == [set |-> FALSE, mode |-> {}, base |-> 0, cursor |-> Null,
             buffer |-> <<>>, buffer_alias |-> FALSE,
             scroll |-> [top |-> 0, bottom |-> 0], scroll_alias |-> FALSE,
             tabs |-> {}, tabs_alias |-> FALSE]

Throw(t) == [t EXCEPT !.err = TRUE]

Cur(t) == t.heap[t.cursor]

Cols(t) == t.geometry[1]
Rows(t) == t.geometry[2]

\* a cursor object that is neither my.saved_cursor nor saved_screen.cursor
NewRef(t) ==
    CHOOSE r \in Refs :
        /\ r # t.saved_cursor
        /\ r # t.saved_screen.cursor
        /\ \A q \in Refs : (q < r) => (q = t.saved_cursor \/ q = t.saved_screen.cursor)

\* The references renamed in order of first use (cursor, saved_cursor,
\* saved_screen.cursor) and unreferenced objects dropped: object identity is
\* observable only through aliasing.
Canon(t) ==
    LET a == t.cursor
        b == t.saved_cursor
        c == t.saved_screen.cursor
        na == IF a = Null THEN Null ELSE 1
        nb == IF b = Null THEN Null
              ELSE IF b = a THEN na
              ELSE IF a = Null THEN 1 ELSE 2
        nc == IF c = Null THEN Null
              ELSE IF c = a THEN na
              ELSE IF c = b THEN nb
              ELSE Cardinality({a, b} \ {Null}) + 1
        h == [r \in Refs |->
                IF na = r THEN t.heap[a]
                ELSE IF nb = r THEN t.heap[b]
                ELSE IF nc = r THEN t.heap[c]
                ELSE Free]
    IN  [t EXCEPT !.heap = h, !.cursor = na, !.saved_cursor = nb,
                  !.saved_screen.cursor = nc]

(***************************************************************************)
(* Replacing an object the alternate-screen slot still names: the slot     *)
(* keeps the old object, whose value is then held in the slot itself.      *)
(***************************************************************************)
DetachBuffer(t) ==
    IF t.saved_screen.set /\ t.saved_screen.buffer_alias
    THEN [t EXCEPT !.saved_screen.buffer = t.buffer,
                   !.saved_screen.buffer_alias = FALSE]
    ELSE t

DetachScroll(t) ==
    IF t.saved_screen.set /\ t.saved_screen.scroll_alias
    THEN [t EXCEPT !.saved_screen.scroll = t.scroll,
                   !.saved_screen.scroll_alias = FALSE]
    ELSE t

DetachTabs(t) ==
    IF t.saved_screen.set /\ t.saved_screen.tabs_alias
    THEN [t EXCEPT !.saved_screen.tabs = t.tabs,
                   !.saved_screen.tabs_alias = FALSE]
    ELSE t

\* that.emit(...): the notification is appended to the record of this call
Emit(t, e) == [t EXCEPT !.emitted = Append(@, e)]

(***************************************************************************)
(* term.js: private functions.                                             *)
(***************************************************************************)
glyph(t, char) == <<Cur(t).attr, char>>

dirty(t, y) ==
    IF t.err THEN t
    ELSE IF t.dirty = <<>> THEN [t EXCEPT !.dirty = <<y, y>>]
    ELSE [t EXCEPT !.dirty = <<Min2(@[1], y), Max2(@[2], y)>>]

\* dirty(my.base + my.cursor.y)
dirty_cursor(t) ==
    IF t.err THEN t
    ELSE IF t.cursor = Null THEN Throw(t)
    ELSE dirty(t, t.base + Cur(t).y)

blank_line(t) == [i \in 1..Cols(t) |-> glyph(t, " ")]

\* scroll(1) adding its blank line at the end of the buffer, whatever the
\* bottom margin
scroll_up_append(t) ==
    IF t.cursor = Null THEN Throw(t)
    ELSE [t EXCEPT !.buffer = Append(@, blank_line(t))]

\* my.buffer.splice(row, 0, blank_line()) at row = my.base + my.scroll.bottom
scroll_up_insert(t) ==
    IF t.cursor = Null THEN Throw(t)
    ELSE [t EXCEPT !.buffer =
             SpliceIns(@, t.base + t.scroll.bottom, blank_line(t))]

\* the loop of scroll taking no account of the count
scroll_up_once(t, n) ==
    IF n = 0 \/ t.err THEN t
    ELSE scroll_up_insert([t EXCEPT !.base = @ + 1])

RECURSIVE scroll_up_loop(_, _)
scroll_up_loop(t, n) ==
    IF n = 0 \/ t.err THEN t
    ELSE scroll_up_loop(scroll_up_insert([t EXCEPT !.base = @ + 1]), n - 1)

\* my.buffer.splice(my.base + my.scroll.top, 0, blank_line())
scroll_down_insert(t) ==
    IF t.cursor = Null THEN Throw(t)
    ELSE [t EXCEPT !.buffer =
             SpliceIns(@, t.base + t.scroll.top, blank_line(t))]

RECURSIVE scroll_down_loop(_, _)
scroll_down_loop(t, n) ==
    IF n = 0 \/ t.err THEN t
    ELSE scroll_down_loop(
            scroll_down_insert(
               [t EXCEPT !.buffer = SpliceDel(@, t.base + t.scroll.bottom)]),
            n - 1)

\* the two dirty() calls that end scroll; n is the count scrolled
scroll_dirty(t, n) ==
    dirty(dirty(t, t.base + t.scroll.bottom - n), t.base + t.scroll.bottom)

scroll(t, n) ==
    IF t.err THEN t
    ELSE IF n >= 0 THEN scroll_dirty(scroll_up_loop(t, n), n)
    ELSE scroll_dirty(scroll_down_loop(t, -n), -n)

\* move_to clamping to the screen whatever the origin mode
move_to_assign_screen(t, x, y, absolute) ==
    IF t.err THEN t
    ELSE [t EXCEPT !.heap[t.cursor] =
             [@ EXCEPT !.state = UNSET(@, WRAPNEXT),
                       !.x = clamp(x, 0, Cols(t)),
                       !.y = clamp(y, 0, Rows(t) - 1)]]

\* the assignments of move_to to my.cursor
move_to_assign(t, x, y, absolute) ==
    IF t.err THEN t
    ELSE LET org == IS_SET(Cur(t).state, ORIGIN)
             miny == IF org THEN t.scroll.top ELSE 0
             maxy == IF org THEN t.scroll.bottom ELSE Rows(t) - 1
             y1 == IF org /\ ~absolute THEN y + t.scroll.top ELSE y
         IN  [t EXCEPT !.heap[t.cursor] =
                 [@ EXCEPT !.state = UNSET(@, WRAPNEXT),
                           !.x = clamp(x, 0, Cols(t)),
                           !.y = clamp(y1, miny, maxy)]]

move_to(t, x, y, absolute) ==
    IF t.err THEN t
    ELSE IF t.cursor = Null THEN Throw(t)
    ELSE dirty_cursor(move_to_assign(dirty_cursor(t), x, y, absolute))

\* move_to(first_col ? 0 : my.cursor.x, y)
new_line_move(t, first_col, y) ==
    IF t.err THEN t
    ELSE move_to(t, IF first_col THEN 0 ELSE Cur(t).x, y, FALSE)

new_line(t, first_col) ==
    IF t.err THEN t
    ELSE IF t.cursor = Null THEN Throw(t)
    ELSE IF Cur(t).y >= t.scroll.bottom
         THEN new_line_move(scroll(t, 1), first_col, Cur(t).y)
         ELSE new_line_move(t, first_col, Cur(t).y + 1)

\* put_char without the wrap to the next line
put_char_no_wrap(t) == t

put_char_wrap(t) ==
    IF IS_SET(t.mode, WRAP) /\ IS_SET(Cur(t).state, WRAPNEXT)
    THEN new_line(t, TRUE) ELSE t

\* the splice of INSERT mode and the assignment of the glyph
put_char_write(t, c) ==
    IF t.err THEN t
    ELSE LET row == t.base + Cur(t).y
             x == Cur(t).x
         IN  IF row >= Len(t.buffer) THEN Throw(t)
             ELSE [t EXCEPT !.buffer[row + 1] =
                     SetAt(IF IS_SET(t.mode, INSERT) /\ x + 1 < Cols(t)
                           THEN SpliceIns(@, x, <<glyph(t, " ")>>)
                           ELSE @,
                           x, glyph(t, c))]

\* put_char without the move of the cursor past the glyph written
put_char_no_advance(t) == t

put_char_advance(t) ==
    IF t.err THEN t
    ELSE IF Cur(t).x + 1 < Cols(t)
         THEN move_to(t, Cur(t).x + 1, Cur(t).y, FALSE)
         ELSE [t EXCEPT !.heap[t.cursor].state = SET(@, WRAPNEXT)]

put_char(t, c) ==
    IF t.err THEN t
    ELSE IF t.cursor = Null THEN Throw(t)
    ELSE dirty_cursor(put_char_advance(put_char_write(put_char_wrap(t), c)))

\* the loops of clear_region over the clamped rectangle
clear_region_fill(t, x, y, x_end, y_end, char_value) ==
    IF (y >= y_end) \/ (x >= x_end) THEN t
    ELSE IF t.cursor = Null THEN Throw(t)
    ELSE LET last == Min2(Len(t.buffer), t.base + y_end)
             fill(line) ==
                 LET padded == IF x_end > Len(line)
                               THEN line \o [k \in 1..(x_end - Len(line)) |-> Hole]
                               ELSE line
                 IN  [i \in 1..Len(padded) |->
                        IF i - 1 >= x /\ i - 1 < x_end
                        THEN glyph(t, char_value) ELSE padded[i]]
         IN  [t EXCEPT !.buffer =
                         [j \in 1..Len(@) |->
                            IF j - 1 >= t.base + y /\ j - 1 < last
                            THEN fill(@[j]) ELSE @[j]],
                       \* `my.buffer[j][i] = ...` throws at a missing row
                       !.err = t.base + y_end > Len(t.buffer)]

\* clear_region clearing its rows from the first column to the last
clear_region_whole_rows(t, x0, y0, cols, rows, char_value) ==
    IF t.err THEN t
    ELSE LET y == clamp(y0, 0, Rows(t) - 1)
             y_end == clamp(y + rows, 0, Rows(t))
         IN  dirty(dirty(clear_region_fill(t, 0, y, Cols(t), y_end, char_value),
                         t.base + y),
                   t.base + y_end)

clear_region(t, x0, y0, cols, rows, char_value) ==
    IF t.err THEN t
    ELSE LET x == clamp(x0, 0, Cols(t) - 1)
             y == clamp(y0, 0, Rows(t) - 1)
             x_end == clamp(x + cols, 0, Cols(t))
             y_end == clamp(y + rows, 0, Rows(t))
         IN  dirty(dirty(clear_region_fill(t, x, y, x_end, y_end, char_value),
                         t.base + y),
                   t.base + y_end)

RECURSIVE delete_chars_loop(_, _)
delete_chars_loop(t, n) ==
    IF n = 0 \/ t.err THEN t
    ELSE IF t.cursor = Null THEN Throw(t)
    ELSE IF t.base + Cur(t).y >= Len(t.buffer) THEN Throw(t)
    ELSE delete_chars_loop(
            [t EXCEPT !.buffer[t.base + Cur(t).y + 1] =
                Append(SpliceDel(@, Cur(t).x), glyph(t, " "))],
            n - 1)

delete_chars(t, n) ==
    IF t.err THEN t ELSE dirty_cursor(delete_chars_loop(t, n))

\* while(!my.tabs[--x] && x > 0);
RECURSIVE prev_scan(_, _)
prev_scan(stops, x) ==
    IF (x - 1) \in stops \/ ~(x - 1 > 0) THEN x - 1 ELSE prev_scan(stops, x - 1)

prev_stop(t, x) == clamp(prev_scan(t.tabs, x), 0, Cols(t) - 1)

\* for(; i < my.geometry[0]; i += 8) my.tabs[i] = true;
stops_from(i0, cols) == {i \in i0..(cols - 1) : (i - i0) % 8 = 0}

\* setup_stops(pos) with a number: the stops are extended, never cleared
setup_stops(t, pos) ==
    IF t.err THEN t
    ELSE [t EXCEPT !.tabs = @ \cup stops_from(prev_stop(t, pos), Cols(t))]

\* my.buffer.slice(lo, hi)
Slice(a, lo, hi) ==
    LET k == IF lo < 0 THEN Max2(Len(a) + lo, 0) ELSE Min2(lo, Len(a))
        f == IF hi < 0 THEN Max2(Len(a) + hi, 0) ELSE Min2(hi, Len(a))
    IN  SubSeq(a, k + 1, f)

\* cursor()
cursor(t) == <<Cur(t).x, Cur(t).y>>

Refresh(d, slice, c) ==
    [type |-> "refresh", dirty |-> d, slice |-> slice, cursor |-> c, arg |-> <<>>]

Notify(type, arg) ==
    [type |-> type, dirty |-> <<>>, slice |-> <<>>, cursor |-> <<>>, arg |-> arg]

\* my.pty.write(data): the bytes written are recorded among the notifications
PtyWrite(t, data) == Emit(t, Notify("pty.write", <<data>>))

(***************************************************************************)
(* term.js: resize                                                         *)
(***************************************************************************)
resize_line(t, line, oldcols) ==
    IF Cols(t) >= oldcols
    THEN (IF Len(line) < Cols(t)
          THEN line \o [k \in 1..(Cols(t) - Len(line)) |-> glyph(t, " ")]
          ELSE line)
    ELSE (IF Len(line) > Cols(t) THEN SubSeq(line, 1, Cols(t)) ELSE line)

\* "Resize cols"
resize_cols(t, oldcols) ==
    IF /\ Cols(t) >= oldcols
       /\ t.cursor = Null
       /\ \E j \in 1..Len(t.buffer) : Len(t.buffer[j]) < Cols(t)
    THEN Throw(t)
    ELSE [t EXCEPT !.buffer = [j \in 1..Len(@) |-> resize_line(t, @[j], oldcols)]]

\* "Resize rows"
resize_rows(t) ==
    IF t.err THEN t
    ELSE IF Len(t.buffer) < Rows(t) + t.base
    THEN (IF t.cursor = Null THEN Throw(t)
          ELSE [t EXCEPT !.buffer =
                  @ \o [k \in 1..(Rows(t) + t.base - Len(@)) |-> blank_line(t)]])
    ELSE [t EXCEPT !.buffer = SubSeq(@, 1, Rows(t) + t.base)]

\* "Clamp cursor"
resize_clamp(t) ==
    IF t.err THEN t
    ELSE IF t.cursor = Null THEN Throw(t)
    ELSE move_to(t, Cur(t).x, Cur(t).y, FALSE)

\* "Reset scroll region", "Set scoll region as dirty"
resize_scroll(t) ==
    IF t.err THEN t
    ELSE dirty(dirty([t EXCEPT !.scroll = [top |-> 0, bottom |-> Rows(t) - 1]],
                     t.base),
               t.base + Rows(t) - 1)

resize_emit(t, silent) ==
    IF t.err \/ silent THEN t
    ELSE Emit(t, Notify("resize", <<Cols(t), Rows(t)>>))

\* emit('refresh', my.dirty, slice, cursor()) with the slice taken before
resize_refresh_emit(t, slice) ==
    IF t.cursor = Null THEN Throw(t)
    ELSE [Emit(t, Refresh(t.dirty, slice, cursor(t))) EXCEPT !.dirty = <<>>]

resize_refresh(t, oldrows) ==
    IF t.err \/ t.dirty = <<>> THEN t
    ELSE resize_refresh_emit(
            IF oldrows > Rows(t) THEN dirty(t, t.base + oldrows - 1) ELSE t,
            Slice(t.buffer, t.dirty[1], t.dirty[2] + 1))

resize(t, cols, rows, silent) ==
    IF t.err THEN t
    ELSE resize_refresh(
           resize_emit(
             resize_scroll(
               resize_clamp(
                 resize_rows(
                   setup_stops(
                     resize_cols(
                       [t EXCEPT !.geometry = <<Max2(cols, 1), Max2(rows, 1)>>],
                       Cols(t)),
                     Cols(t))))),
             silent),
           Rows(t))

(***************************************************************************)
(* term.js: reset, save_cursor, restore_cursor                             *)
(***************************************************************************)
\* the assignments of reset without `my.tabs = {}`
reset_members_keep_tabs(t) ==
    [t EXCEPT !.mode = {WRAP},
              !.cursor = NewRef(t),
              !.heap[NewRef(t)] = [attr |-> DEFAULT_ATTR, x |-> 0, y |-> 0,
                                   state |-> {}],
              !.buffer = <<>>,
              !.title = <<>>,
              !.base = 0,
              !.scroll = [top |-> 0, bottom |-> Rows(t) - 1],
              !.dirty = <<>>]

\* the assignments of reset
reset_members(t) ==
    [t EXCEPT !.mode = {WRAP},
              !.cursor = NewRef(t),
              !.heap[NewRef(t)] = [attr |-> DEFAULT_ATTR, x |-> 0, y |-> 0,
                                   state |-> {}],
              !.tabs = {},
              !.buffer = <<>>,
              !.title = <<>>,
              !.base = 0,
              !.scroll = [top |-> 0, bottom |-> Rows(t) - 1],
              !.dirty = <<>>]

\* resize(my.geometry[0], my.geometry[1], true)
reset_resize(t) == resize(t, Cols(t), Rows(t), TRUE)

reset(t) ==
    IF t.err THEN t
    ELSE reset_resize(reset_members(DetachBuffer(DetachScroll(DetachTabs(t)))))

save_cursor(t) ==
    IF t.err THEN t ELSE [t EXCEPT !.saved_cursor = t.cursor]

restore_cursor(t) ==
    IF t.err THEN t
    ELSE resize_clamp([t EXCEPT !.cursor = t.saved_cursor])

(***************************************************************************)
(* term.js: the handlers of the vt events (init).                          *)
(***************************************************************************)
RECURSIVE on_print(_, _)
on_print(t, str) ==
    IF str = <<>> \/ t.err THEN t
    ELSE on_print(put_char(t, Head(str)), Tail(str))

\* the write handler dropping the bytes
on_write_dropped(t, data) == t

on_write(t, data) == IF t.err THEN t ELSE PtyWrite(t, data)

on_save_cursor(t) == save_cursor(t)

on_restore_cursor(t) == restore_cursor(t)

on_clear(t) == clear_region(t, 0, 0, Cols(t), Rows(t), " ")

on_reset(t) == reset(t)

\* delete my.tabs[my.cursor.x]
on_clear_tab_stop(t) ==
    IF t.err THEN t
    ELSE IF t.cursor = Null THEN Throw(t)
    ELSE [t EXCEPT !.tabs = @ \ {Cur(t).x}]

\* my.tabs = {}
on_clear_all_tab_stops(t) ==
    IF t.err THEN t ELSE [DetachTabs(t) EXCEPT !.tabs = {}]

\* my.tabs[my.cursor.x] = true
on_set_tab_stop_current(t) ==
    IF t.err THEN t
    ELSE IF t.cursor = Null THEN Throw(t)
    ELSE [t EXCEPT !.tabs = @ \cup {Cur(t).x}]

on_fill(t, char_value) == clear_region(t, 0, 0, Cols(t), Rows(t), char_value)

\* the second call of erase_below, unless the cursor is on the last row
erase_below_rest(t) ==
    IF t.err THEN t
    ELSE IF Cur(t).y + 1 >= Rows(t) THEN t
    ELSE clear_region(t, 0, Cur(t).y + 1, Cols(t), Rows(t) - (Cur(t).y + 1), " ")

on_erase_below(t) ==
    IF t.err THEN t ELSE IF t.cursor = Null THEN Throw(t)
    ELSE erase_below_rest(
            clear_region(t, Cur(t).x, Cur(t).y, Cols(t) - Cur(t).x, 1, " "))

\* the second call of erase_above, unless my.cursor.y - 1 <= 0
erase_above_rest(t) ==
    IF t.err THEN t
    ELSE IF Cur(t).y - 1 <= 0 THEN t
    ELSE clear_region(t, 0, 0, Cols(t), Cur(t).y - 1, " ")

on_erase_above(t) ==
    IF t.err THEN t ELSE IF t.cursor = Null THEN Throw(t)
    ELSE erase_above_rest(clear_region(t, 0, Cur(t).y, Cur(t).x, 1, " "))

\* n is <<>> when the event carries no count
on_erase_right(t, n) ==
    IF t.err THEN t ELSE IF t.cursor = Null THEN Throw(t)
    ELSE clear_region(t, Cur(t).x, Cur(t).y,
                      IF n = <<>> THEN Cols(t) - Cur(t).x ELSE n[1], 1, " ")

on_erase_left(t) ==
    IF t.err THEN t ELSE IF t.cursor = Null THEN Throw(t)
    ELSE clear_region(t, 0, Cur(t).y, Cur(t).x, 1, " ")

on_erase_line(t) ==
    IF t.err THEN t ELSE IF t.cursor = Null THEN Throw(t)
    ELSE clear_region(t, 0, Cur(t).y, Cols(t), 1, " ")

on_cursor_right(t, n) ==
    IF t.err THEN t ELSE IF t.cursor = Null THEN Throw(t)
    ELSE move_to(t, Cur(t).x + n, Cur(t).y, FALSE)

on_set_cursor_position(t, y, x) == move_to(t, x, y, TRUE)

\* '' + n: the decimal digits of a number
RECURSIVE Dec(_)
Dec(n) ==
    IF n < 10 THEN <<"0", "1", "2", "3", "4", "5", "6", "7", "8", "9">>[n + 1]
    ELSE Dec(n \div 10) \o Dec(n % 10)

\* '\x1b[' + row + ';' + col + 'R'
Report(row, col) == "\\x1b[" \o Dec(row) \o ";" \o Dec(col) \o "R"

\* var row = my.cursor.x + 1; var col = my.cursor.y + 1;
report_x_y(t) == PtyWrite(t, Report(Cur(t).x + 1, Cur(t).y + 1))

on_report_cursor_position(t) ==
    IF t.err THEN t ELSE IF t.cursor = Null THEN Throw(t)
    ELSE report_x_y(t)

\* my.title = title; that.emit('title', my.title): a string is the sequence of
\* its bytes
on_set_window_title(t, text) ==
    IF t.err THEN t
    ELSE Emit([t EXCEPT !.title = <<text>>], Notify("title", <<text>>))

on_char_attr_reset(t) ==
    IF t.err THEN t ELSE IF t.cursor = Null THEN Throw(t)
    ELSE [t EXCEPT !.heap[t.cursor].attr = DEFAULT_ATTR]

\* `if(idx)` is false for null (<<>>) and for 0; 0x11f is 287
on_char_attr_set_foreground_index(t, idx) ==
    IF t.err THEN t ELSE IF t.cursor = Null THEN Throw(t)
    ELSE [t EXCEPT !.heap[t.cursor].attr =
            SET_attr(UNSET_attr(@, 287 * 512),
                     (IF idx # <<>> /\ idx # <<0>> THEN idx[1] ELSE 257) * 512)]

on_line_feed(t) == new_line(t, FALSE)

on_reverse_line_feed(t) ==
    IF t.err THEN t ELSE IF t.cursor = Null THEN Throw(t)
    ELSE IF Cur(t).y = t.scroll.top THEN scroll(t, -1)
    ELSE move_to(t, Cur(t).x, Cur(t).y - 1, FALSE)

on_scroll_up(t, n) == scroll(t, n)

on_scroll_down(t, n) == scroll(t, -n)

on_delete_lines(t, n) ==
    IF t.err THEN t ELSE IF t.cursor = Null THEN Throw(t)
    ELSE IF Cur(t).y < t.scroll.top \/ Cur(t).y > t.scroll.bottom THEN t
    ELSE scroll(t, n)

on_insert_lines(t, n) ==
    IF t.err THEN t ELSE IF t.cursor = Null THEN Throw(t)
    ELSE IF Cur(t).y < t.scroll.top \/ Cur(t).y > t.scroll.bottom THEN t
    ELSE scroll(t, -n)

on_delete_chars(t, n) == delete_chars(t, n)

\* `n` is not a parameter of the handler and is declared nowhere: under
\* 'use strict' the assignment `n = ...` throws a ReferenceError
on_insert_chars(t) == IF t.err THEN t ELSE Throw(t)

on_set_insert_mode(t, val) ==
    IF t.err THEN t
    ELSE [t EXCEPT !.mode = IF val THEN SET(@, INSERT) ELSE UNSET(@, INSERT)]

\* `if(top)` is false for null (<<>>) and for 0
set_scroll_top(t, top) ==
    IF top # <<>> /\ top # <<0>>
    THEN [t EXCEPT !.scroll.top = clamp(top[1], 0, Rows(t) - 1)]
    ELSE t

set_scroll_bottom(t, bottom) ==
    IF bottom # <<>> /\ bottom # <<0>>
    THEN [t EXCEPT !.scroll.bottom = clamp(bottom[1], 0, Rows(t) - 1)]
    ELSE t

on_set_scroll_region(t, top, bottom) ==
    IF t.err THEN t ELSE set_scroll_bottom(set_scroll_top(t, top), bottom)

on_set_origin_mode(t, val) ==
    IF t.err THEN t ELSE IF t.cursor = Null THEN Throw(t)
    ELSE [t EXCEPT !.heap[t.cursor].state =
                      IF val THEN SET(@, ORIGIN) ELSE UNSET(@, ORIGIN)]

on_set_wrap_around(t, val) ==
    IF t.err THEN t
    ELSE [t EXCEPT !.mode = IF val THEN SET(@, WRAP) ELSE UNSET(@, WRAP)]

\* what a round trip through the alternate screen is to restore
ScreenState(t) ==
    [buffer |-> t.buffer, base |-> t.base,
     cursor |-> IF t.cursor = Null THEN Free ELSE Cur(t),
     scroll |-> t.scroll, tabs |-> t.tabs, mode |-> t.mode]

\* my.saved_screen = {...}: the slot names the current objects
alt_save(t) ==
    [t EXCEPT !.saved_screen =
                 [set |-> TRUE, mode |-> t.mode, base |-> t.base,
                  cursor |-> t.cursor,
                  buffer |-> <<>>, buffer_alias |-> TRUE,
                  scroll |-> [top |-> 0, bottom |-> 0], scroll_alias |-> TRUE,
                  tabs |-> {}, tabs_alias |-> TRUE],
              \* history: a round trip starts at an enable on the main screen
              !.before_alt = IF IS_SET(t.mode, ALTSCREEN) THEN <<>>
                             ELSE <<ScreenState(t)>>,
              !.round_trip = IF IS_SET(t.mode, ALTSCREEN) THEN "none" ELSE "in"]

\* my.buffer = []; that.emit('alternate', true);
alt_clear(t) ==
    Emit([DetachBuffer(t) EXCEPT !.buffer = <<>>], Notify("alternate", <<TRUE>>))

alt_set(t) ==
    IF t.err THEN t ELSE [t EXCEPT !.mode = SET(@, ALTSCREEN)]

\* the disable without the restore of the saved screen
alt_no_restore(t) == t

\* if(my.saved_screen) {...}
alt_restore(t) ==
    IF t.saved_screen.set
    THEN [t EXCEPT
            !.mode = t.saved_screen.mode,
            !.cursor = t.saved_screen.cursor,
            !.scroll = IF t.saved_screen.scroll_alias THEN @
                       ELSE t.saved_screen.scroll,
            !.tabs = IF t.saved_screen.tabs_alias THEN @
                     ELSE t.saved_screen.tabs,
            !.base = t.saved_screen.base,
            !.buffer = IF t.saved_screen.buffer_alias THEN @
                       ELSE t.saved_screen.buffer,
            !.saved_screen =
               [@ EXCEPT !.buffer = <<>>, !.buffer_alias = TRUE,
                         !.scroll = [top |-> 0, bottom |-> 0],
                         !.scroll_alias = TRUE,
                         !.tabs = {}, !.tabs_alias = TRUE]]
    ELSE t

\* my.mode = UNSET(my.mode, ALTSCREEN); that.emit('alternate', false);
alt_unset_emit(t) ==
    Emit([t EXCEPT !.mode = UNSET(@, ALTSCREEN)], Notify("alternate", <<FALSE>>))

alt_unset(t) == [alt_unset_emit(t) EXCEPT !.dirty = <<>>]

\* history: the state the handler leaves against the state at the enable
alt_compare(t) ==
    IF t.round_trip = "in"
    THEN [t EXCEPT !.round_trip = IF <<ScreenState(t)>> = t.before_alt
                                  THEN "same" ELSE "differs",
                   !.before_alt = <<>>]
    ELSE t

on_set_alternate_mode(t, alt) ==
    IF t.err THEN t
    ELSE IF alt THEN alt_set(reset(alt_clear(alt_save(t))))
    ELSE alt_compare(alt_unset(alt_restore(t)))

(***************************************************************************)
(* vt.js: parameters and the dispatch tables.  A parameter list `args` is  *)
(* a sequence of parameter strings, each the number its digits spell or    *)
(* Empty for the empty string.                                             *)
(***************************************************************************)
Empty == -1

int_arg(args, pos, def) ==
    IF pos + 1 > Len(args) THEN def
    ELSE IF args[pos + 1] = Empty THEN def
    ELSE IF args[pos + 1] = 0 THEN def
    ELSE args[pos + 1]

\* the character maps: exports.maps['B'] (us) and exports.maps['0']
\* (graphic); a slot that holds no map reads as `undefined`
MapUs == "B"
MapGraphic == "0"
Undefined == "undefined"

\* my.saved_state = {GL, GR, G0, G1, G2, G4: my.G3}
charset_save(t) ==
    [t EXCEPT !.vt.saved_state =
        [GL |-> t.vt.GL, GR |-> t.vt.GR, G0 |-> t.vt.G0, G1 |-> t.vt.G1,
         G2 |-> t.vt.G2, G4 |-> t.vt.G3]]

\* my.G3 = my.saved_state.G3, a member save_cursor never writes
charset_restore(t) ==
    [t EXCEPT !.vt.GL = t.vt.saved_state.GL, !.vt.GR = t.vt.saved_state.GR,
              !.vt.G0 = t.vt.saved_state.G0, !.vt.G1 = t.vt.saved_state.G1,
              !.vt.G2 = t.vt.saved_state.G2, !.vt.G3 = Undefined]

\* vt.js reset: the maps and selectors; my.state exists after construction
vt_reset(t) ==
    IF t.err THEN t
    ELSE charset_save([t EXCEPT !.vt.G0 = MapUs, !.vt.G1 = MapGraphic,
                                !.vt.G2 = MapUs, !.vt.G3 = MapUs,
                                !.vt.GL = "G0", !.vt.GR = "G0"])

\* vt.js save_cursor / restore_cursor
vt_save_cursor(t) == IF t.err THEN t ELSE on_save_cursor(charset_save(t))

vt_restore_cursor(t) ==
    IF t.err THEN t ELSE on_restore_cursor(charset_restore(t))

\* the codes fed are those of SM and RM below
set_ansi_mode(t, code, state) ==
    IF code = 4 THEN on_set_insert_mode(t, state) ELSE t

set_dec_mode(t, code, state) ==
    CASE code = 6 -> on_set_cursor_position(on_set_origin_mode(t, state), 0, 0)
      [] code = 7 -> on_set_wrap_around(t, state)
      [] code \in {47, 1047} -> on_set_alternate_mode(t, state)
      [] code = 1048 -> vt_save_cursor(t)
      [] code = 1049 ->
            IF state
            THEN on_clear(on_set_alternate_mode(vt_save_cursor(t), state))
            ELSE vt_restore_cursor(on_set_alternate_mode(t, state))
      [] OTHER -> t

CC1_LF(t) == on_line_feed(t)

ESC_7(t) == vt_save_cursor(t)

ESC_8(t) == vt_restore_cursor(t)

ESC_c(t) == on_reset(vt_reset(t))

\* SO, SI and the locking shifts ESC n, ESC o, ESC |, ESC }, ESC ~
CC1_SO(t) == [t EXCEPT !.vt.GL = "G1"]

CC1_SI(t) == [t EXCEPT !.vt.GL = "G0"]

ESC_LS2(t) == [t EXCEPT !.vt.GL = "G2"]

ESC_LS3(t) == [t EXCEPT !.vt.GL = "G3"]

ESC_LS3R(t) == [t EXCEPT !.vt.GR = "G3"]

ESC_LS2R(t) == [t EXCEPT !.vt.GR = "G1"]

ESC_LS1R(t) == [t EXCEPT !.vt.GR = "G1"]

\* ESC ( ) * + followed by the name of a character map
ESC_SCS(t, code, ch) ==
    CASE code = "(" -> [t EXCEPT !.vt.G0 = ch]
      [] code = ")" -> [t EXCEPT !.vt.G1 = ch]
      [] code = "*" -> [t EXCEPT !.vt.G2 = ch]
      [] code = "+" -> [t EXCEPT !.vt.G3 = ch]

CSI_ICH(t, args) == on_insert_chars(t)

CSI_CUF(t, args) == on_cursor_right(t, int_arg(args, 0, 1))

CSI_CUP(t, args) ==
    on_set_cursor_position(t, int_arg(args, 0, 1) - 1, int_arg(args, 1, 1) - 1)

CSI_DCH(t, args) == on_delete_chars(t, int_arg(args, 0, 1))

ESC_RI(t) == on_reverse_line_feed(t)

\* ESC # 8 (DECALN)
ESC_DECALN(t) == on_fill(t, "E")

\* any other code reads `args`, which no scope declares: a ReferenceError
CSI_ED(t, args) ==
    IF t.err THEN t
    ELSE CASE args = <<>> \/ args[1] = Empty \/ args[1] = 0 -> on_erase_below(t)
           [] args # <<>> /\ args[1] = 1 -> on_erase_above(t)
           [] args # <<>> /\ args[1] \in {2, 3} -> on_clear(t)
           [] OTHER -> Throw(t)

CSI_EL(t, args) ==
    IF t.err THEN t
    ELSE CASE args = <<>> \/ args[1] = Empty \/ args[1] = 0 -> on_erase_right(t, <<>>)
           [] args # <<>> /\ args[1] = 1 -> on_erase_left(t)
           [] args # <<>> /\ args[1] = 2 -> on_erase_line(t)
           [] OTHER -> Throw(t)

CSI_ECH(t, args) == on_erase_right(t, <<int_arg(args, 0, 1)>>)

CSI_IL(t, args) == on_insert_lines(t, int_arg(args, 0, 1))

CSI_DL(t, args) == on_delete_lines(t, int_arg(args, 0, 1))

CSI_SU(t, args) == on_scroll_up(t, int_arg(args, 0, 1))

\* if(my.state.args().length <= 1)
CSI_SD(t, args) ==
    IF Len(args) <= 1 THEN on_scroll_down(t, int_arg(args, 0, 1)) ELSE t

\* the sequences fed carry one mode each
\* Horizontal Tabulation Set (HTS)
ESC_H(t) == on_set_tab_stop_current(t)

\* Tab Clear (TBC): args()[0] is the parameter as written
CSI_TBC(t, args) ==
    IF args[1] = Empty \/ args[1] = 0 THEN on_clear_tab_stop(t)
    ELSE IF args[1] = 3 THEN on_clear_all_tab_stops(t)
    ELSE t

CSI_SM(t, args) == set_ansi_mode(t, args[1], TRUE)

CSI_RM(t, args) == set_ansi_mode(t, args[1], FALSE)

CSI_DECSET(t, args) == set_dec_mode(t, args[1], TRUE)

CSI_DECRST(t, args) == set_dec_mode(t, args[1], FALSE)

\* if(!args[0] || args[0] === '0')
CSI_DA(t, args) ==
    IF args = <<>> \/ args[1] = Empty \/ args[1] = 0
    THEN on_write(t, "\\x1b[?1;2c") ELSE t

\* `my.parse_state` is undefined: reading its `args` throws a TypeError
\* whenever the first parameter is not '5'
CSI_DSR(t, args) ==
    IF t.err THEN t
    ELSE IF args # <<>> /\ args[1] = 5 THEN on_write(t, "\\x1b0n")
    ELSE Throw(t)

\* the codes fed are 6 and codes with no report
CSI_DECDSR(t, args) ==
    IF args # <<>> /\ args[1] = 6 THEN on_report_cursor_position(t) ELSE t

\* get256(i) of CSI m: null (<<>>) unless args[i + 1] is '5'
get256(args, i) ==
    IF Len(args) < i + 2 \/ args[i + 2] # 5 THEN <<>>
    ELSE <<int_arg(args, i + 2, 0)>>

\* the loop of CSI m over the parameters; the codes fed select a foreground
\* or reset the attributes
RECURSIVE sgr_loop(_, _, _)
sgr_loop(t, args, i) ==
    IF t.err \/ i >= Len(args) THEN t
    ELSE LET arg == int_arg(args, i, 0)
         IN  CASE arg = 0 -> sgr_loop(on_char_attr_reset(t), args, i + 1)
               [] arg >= 30 /\ arg < 38 ->
                    sgr_loop(on_char_attr_set_foreground_index(t, <<arg - 30>>),
                             args, i + 1)
               [] arg = 38 ->
                    IF get256(args, i) = <<>> THEN t
                    ELSE sgr_loop(on_char_attr_set_foreground_index(
                                      t, get256(args, i)),
                                  args, i + 3)
               [] arg = 39 ->
                    sgr_loop(on_char_attr_set_foreground_index(t, <<>>),
                             args, i + 1)
               [] arg >= 90 /\ arg <= 97 ->
                    sgr_loop(on_char_attr_set_foreground_index(t, <<arg - 90 + 8>>),
                             args, i + 1)
               [] OTHER -> sgr_loop(t, args, i + 1)

CSI_SGR(t, args) ==
    IF args = <<>> THEN on_char_attr_reset(t) ELSE sgr_loop(t, args, 0)

\* args[i] ? parseInt(args[i], 10) - 1 : null
stbm_arg(args, i) ==
    IF Len(args) >= i /\ args[i] # Empty THEN <<args[i] - 1>> ELSE <<>>

CSI_DECSTBM(t, args) ==
    on_set_cursor_position(
        on_set_scroll_region(t, stbm_arg(args, 1), stbm_arg(args, 2)), 0, 0)

(***************************************************************************)
(* vt.js: the parser.  A buffer is a sequence of bytes, each named by a    *)
(* string; `pos` counts from 0.  A parse routine is named by `fun`: the    *)
(* closures parse_esc and parse_osc are created anew by each dispatch that *)
(* installs them, which the name does not tell, but every step installing  *)
(* one also moves `pos`.                                                   *)
(***************************************************************************)
ESC == "ESC"      \* '\x1b'
BEL == "BEL"      \* '\x07'
LFChar == "LF"    \* '\x0a'

\* my.buf = null
NullBuf == <<"null">>

max_string_sequence == 1024

\* the bytes among those fed that my.cc1_r matches
CC1Chars == {ESC, BEL, LFChar}

\* the bytes among those fed that lie in '@'..'~'
FinalChars == {"@", "[", "]", "a", "C", "H", "h"}

\* the bytes among those fed that lie in ' '..'?', less the digits, ';' and ':'
ModifierChars == {"(", "$", "?"}

\* state({def_fun: parse_unknown}), my.leading_modifier, my.trailing_modifier;
\* `ret` is what parse_until_string_terminator returned last, and `stuck`
\* that vt.read threw 'Parser `fun` failed to alter state'
VtInit ==
    [fun |-> "parse_unknown", buf |-> NullBuf, pos |-> 0, args |-> <<>>,
     lead |-> <<>>, trail |-> <<>>, ret |-> TRUE, stuck |-> FALSE,
     GL |-> "G0", GR |-> "G0", G0 |-> MapUs, G1 |-> MapGraphic, G2 |-> MapUs,
     G3 |-> MapUs,
     saved_state |-> [GL |-> "G0", GR |-> "G0", G0 |-> MapUs,
                      G1 |-> MapGraphic, G2 |-> MapUs, G4 |-> MapUs]]

is_complete(t) == t.vt.buf = NullBuf \/ Len(t.vt.buf) <= t.vt.pos

peek_buf(t) == SubSeq(t.vt.buf, t.vt.pos + 1, Len(t.vt.buf))

peek(t) == IF t.vt.pos < Len(t.vt.buf) THEN t.vt.buf[t.vt.pos + 1] ELSE ""

\* advance leaving my.pos where it is
advance_nowhere(t, count) == t

advance(t, count) == IF t.err THEN t ELSE [t EXCEPT !.vt.pos = @ + count]

reset_fun(t) == IF t.err THEN t ELSE [t EXCEPT !.vt.fun = "parse_unknown"]

set_fun(t, fun) == [t EXCEPT !.vt.fun = fun]

\* my.state.reset(buf)
state_reset(t, buf) ==
    IF t.err THEN t
    ELSE [t EXCEPT !.vt.fun = "parse_unknown", !.vt.buf = buf, !.vt.pos = 0,
                   !.vt.args = <<>>]

\* buf.search(/[...]/) for a class of bytes: the index of the first, or -1
RECURSIVE Search(_, _)
Search(buf, class) ==
    IF buf = <<>> THEN -1
    ELSE IF Head(buf) \in class THEN 0
    ELSE IF Search(Tail(buf), class) = -1 THEN -1
    ELSE 1 + Search(Tail(buf), class)

\* buf.search(/(\x1b\\|\x07)/)
RECURSIVE SearchTerminator(_)
SearchTerminator(buf) ==
    IF buf = <<>> THEN -1
    ELSE IF Head(buf) = BEL THEN 0
    ELSE IF Head(buf) = ESC /\ Len(buf) >= 2 /\ buf[2] = "\\" THEN 0
    ELSE IF SearchTerminator(Tail(buf)) = -1 THEN -1
    ELSE 1 + SearchTerminator(Tail(buf))

DigitChars == {"0", "1", "2", "3", "4", "5", "6", "7", "8", "9"}

\* the digit a byte names
DigitValue(ch) ==
    CASE ch = "0" -> 0 [] ch = "1" -> 1 [] ch = "2" -> 2 [] ch = "3" -> 3
      [] ch = "4" -> 4 [] ch = "5" -> 5 [] ch = "6" -> 6 [] ch = "7" -> 7
      [] ch = "8" -> 8 [] ch = "9" -> 9

\* parseInt(str, 10) of a string of digits; Empty for the empty string
RECURSIVE ParseInt(_)
ParseInt(str) ==
    IF str = <<>> THEN Empty
    ELSE IF Len(str) = 1 THEN DigitValue(str[1])
    ELSE 10 * ParseInt(SubSeq(str, 1, Len(str) - 1)) + DigitValue(str[Len(str)])

\* my.state.args() as the CSI handlers read it
CsiArgs(t) == [i \in 1..Len(t.vt.args) |-> ParseInt(t.vt.args[i])]

\* OSC 0 and OSC 2
OSC_title(t) == on_set_window_title(t, t.vt.args[1])

\* dispatch(type, code) for the codes the bytes fed can spell; a code with no
\* handler is ignored, and ring_bell has a handler that does nothing
dispatch(t, type, code) ==
    IF t.err THEN t
    ELSE CASE type = "CC1" /\ code = <<ESC>> -> set_fun(t, "parse_esc")
           [] type = "ESC" /\ code = <<"[">> ->
                 [t EXCEPT !.vt.args = <<>>, !.vt.lead = <<>>, !.vt.trail = <<>>,
                           !.vt.fun = "parse_csi"]
           [] type = "ESC" /\ code = <<"]">> ->
                 [t EXCEPT !.vt.args = <<>>, !.vt.fun = "parse_osc"]
           [] type = "ESC" /\ code = <<"(">> -> set_fun(t, "parse_charset")
           [] type = "CC1" /\ code = <<LFChar>> -> CC1_LF(t)
           [] type = "ESC" /\ code = <<"7">> -> ESC_7(t)
           [] type = "ESC" /\ code = <<"8">> -> ESC_8(t)
           [] type = "CSI" /\ code = <<"@">> -> CSI_ICH(t, CsiArgs(t))
           [] type = "CSI" /\ code = <<"C">> -> CSI_CUF(t, CsiArgs(t))
           [] type = "CSI" /\ code = <<"H">> -> CSI_CUP(t, CsiArgs(t))
           [] type = "CSI" /\ code = <<"?", "h">> -> CSI_DECSET(t, CsiArgs(t))
           [] type = "OSC" /\ code \in {<<"0">>, <<"2">>} -> OSC_title(t)
           [] OTHER -> t

\* my[name]
Slot(t, name) ==
    CASE name = "G0" -> t.vt.G0 [] name = "G1" -> t.vt.G1
      [] name = "G2" -> t.vt.G2 [] name = "G3" -> t.vt.G3

\* the GL method of the graphic map on the characters fed
GraphicGL(ch) == IF ch = "a" THEN "\\u2592" ELSE ch

\* my[my.GL].GL(str): the 'us' map, made with glmap: null, has no GL method
MapGL(map, str) ==
    IF map = MapGraphic THEN [i \in 1..Len(str) |-> GraphicGL(str[i])] ELSE str

\* print(str) of parse_unknown: reading a member of a slot that holds no map
\* throws; the method `RL` tested for GR exists on no map
vt_print(t, str) ==
    IF t.err THEN t
    ELSE IF Slot(t, t.vt.GL) = Undefined \/ Slot(t, t.vt.GR) = Undefined
    THEN Throw(t)
    ELSE on_print(t, MapGL(Slot(t, t.vt.GL), str))

parse_unknown_at(t, buf, next_control) ==
    IF next_control = 0
    THEN advance(dispatch(t, "CC1", <<buf[1]>>), 1)
    ELSE IF next_control = -1
    THEN state_reset(vt_print(t, buf), NullBuf)
    ELSE advance(dispatch(vt_print(t, SubSeq(buf, 1, next_control)),
                          "CC1", <<buf[next_control + 1]>>),
                 next_control + 1)

parse_unknown(t) ==
    parse_unknown_at(t, peek_buf(t), Search(peek_buf(t), CC1Chars))

\* if(my.state.fun() === parse_esc) my.state.reset_fun();
parse_esc_done(t) ==
    IF t.err THEN t
    ELSE IF t.vt.fun = "parse_esc" THEN reset_fun(t) ELSE t

\* parse_esc after `var ch = my.state.consume()`
parse_esc_ch(t, ch) ==
    IF ch = ESC THEN t ELSE parse_esc_done(dispatch(t, "ESC", <<ch>>))

parse_esc(t) == parse_esc_ch(advance(t, 1), peek(t))

\* parse_csi on ';' or a digit
parse_csi_param(t, ch) ==
    IF t.vt.trail # <<>> THEN reset_fun(t)
    ELSE IF ch = ";"
    THEN [t EXCEPT !.vt.args = IF @ = <<>> THEN << <<>>, <<>> >>
                                ELSE Append(@, <<>>)]
    ELSE IF t.vt.args = <<>> THEN [t EXCEPT !.vt.args = << <<ch>> >>]
    ELSE [t EXCEPT !.vt.args[Len(t.vt.args)] = Append(@, ch)]

\* parse_csi on a byte of ' '..'?' that is no digit, ';' or ':'
parse_csi_modifier(t, ch) ==
    IF t.vt.args = <<>> THEN [t EXCEPT !.vt.lead = Append(@, ch)]
    ELSE [t EXCEPT !.vt.trail = Append(@, ch)]

\* the key of the dispatch made on a final byte
csi_key(t, ch) == t.vt.lead \o t.vt.trail \o <<ch>>

\* the branches of parse_csi after `var ch = my.state.peek()`
parse_csi_ch(t, ch) ==
    IF t.err THEN t
    ELSE IF ch \in FinalChars THEN reset_fun(dispatch(t, "CSI", csi_key(t, ch)))
    ELSE IF ch = ";" \/ ch \in DigitChars THEN parse_csi_param(t, ch)
    ELSE IF ch \in ModifierChars THEN parse_csi_modifier(t, ch)
    ELSE IF ch \in CC1Chars THEN dispatch(t, "CC1", <<ch>>)
    ELSE reset_fun(t)

parse_csi(t) == advance(parse_csi_ch(t, peek(t)), 1)

\* the closure `parse` that ESC ( installs, after `var ch = consume()`: an
\* escape hands the bytes after it to the default routine at once; no byte
\* fed names a character map
parse_charset_ch(t, ch) ==
    IF ch = ESC THEN parse_unknown(reset_fun(t)) ELSE reset_fun(t)

parse_charset(t) == parse_charset_ch(advance(t, 1), peek(t))

\* if(!args.length) {args[0] = ''; args[1] = new Date();}
string_args(t) ==
    IF t.vt.args = <<>> THEN [t EXCEPT !.vt.args = << <<>> >>] ELSE t

\* no terminator: the text is accumulated, and handed back when it is too
\* long, holds an escape, or the time limit has expired
string_wait(t, buf, expired) ==
    IF \/ Len(t.vt.args[1] \o buf) > max_string_sequence
       \/ Search(t.vt.args[1] \o buf, {ESC}) # -1
       \/ expired
    THEN [state_reset(t, t.vt.args[1] \o buf) EXCEPT !.vt.ret = FALSE]
    ELSE [advance([t EXCEPT !.vt.args[1] = @ \o buf], Len(buf))
            EXCEPT !.vt.ret = TRUE]

string_at(t, buf, next_terminator, expired) ==
    IF next_terminator = -1 THEN string_wait(t, buf, expired)
    ELSE IF Len(t.vt.args[1]) + next_terminator > max_string_sequence
    THEN [state_reset(t, t.vt.args[1] \o buf) EXCEPT !.vt.ret = FALSE]
    ELSE [advance(reset_fun([t EXCEPT !.vt.args[1] =
                                @ \o SubSeq(buf, 1, next_terminator)]),
                  next_terminator
                    + (IF buf[next_terminator + 1] = ESC THEN 2 ELSE 1))
            EXCEPT !.vt.ret = TRUE]

\* `expired` is new Date() - args[1] > my.osc_time_limit
parse_until_string_terminator(t, expired) ==
    string_at(string_args(t), peek_buf(t), SearchTerminator(peek_buf(t)),
              expired)

\* the length of the longest prefix of digits
RECURSIVE LeadingDigits(_)
LeadingDigits(str) ==
    IF str = <<>> THEN 0
    ELSE IF Head(str) \in DigitChars THEN 1 + LeadingDigits(Tail(str))
    ELSE 0

\* args[0].match(/^(\d+);(.*)$/), n the digits matched by (\d+): no byte fed
\* is a line terminator, so (.*) matches whatever follows the ';'
osc_match(t, n) ==
    IF n >= 1 /\ Len(t.vt.args[1]) > n /\ t.vt.args[1][n + 1] = ";"
    THEN dispatch([t EXCEPT !.vt.args[1] = SubSeq(@, n + 2, Len(@))],
                  "OSC", SubSeq(t.vt.args[1], 1, n))
    ELSE t

\* parse_osc finding no sequence to dispatch
parse_osc_no_dispatch(t) == t

\* parse_osc after the call of parse_until_string_terminator
parse_osc_after(t) ==
    IF t.err THEN t
    ELSE IF ~t.vt.ret THEN t
    ELSE IF t.vt.fun = "parse_osc" THEN t
    ELSE osc_match(t, LeadingDigits(t.vt.args[1]))

parse_osc(t, expired) ==
    parse_osc_after(parse_until_string_terminator(t, expired))

\* my.state.fun()()
run_fun(t, expired) ==
    CASE t.vt.fun = "parse_unknown" -> parse_unknown(t)
      [] t.vt.fun = "parse_esc" -> parse_esc(t)
      [] t.vt.fun = "parse_csi" -> parse_csi(t)
      [] t.vt.fun = "parse_osc" -> parse_osc(t, expired)
      [] t.vt.fun = "parse_charset" -> parse_charset(t)

\* the test that ends an iteration of the loop of read
read_check(t, fun, buf, pos) ==
    IF t.err THEN t
    ELSE IF t.vt.fun = fun /\ t.vt.buf = buf /\ t.vt.pos = pos
    THEN [Throw(t) EXCEPT !.vt.stuck = TRUE]
    ELSE t

\* one iteration of the loop of read
read_iteration(t, expired) ==
    read_check(run_fun(t, expired), t.vt.fun, t.vt.buf, t.vt.pos)

(***************************************************************************)
(* The state.                                                              *)
(***************************************************************************)
VARIABLES
    geometry,       \* my.geometry: <<cols, rows>>
    mode,           \* my.mode
    heap,           \* the cursor objects
    my_cursor,      \* my.cursor: a reference, or Null
    saved_cursor,   \* my.saved_cursor: a reference, or Null
    tabs,           \* my.tabs
    buffer,         \* my.buffer
    title,          \* my.title: <<>> for null
    base,           \* my.base
    my_scroll,      \* my.scroll
    my_dirty,       \* my.dirty: <<>> or <<first, last>>
    saved_screen,   \* my.saved_screen
    pc,             \* "idle", or "read" inside vt.read of a chunk
    call,           \* the call in progress or last made
    err,            \* an exception is unwinding / left the last call
    emitted,        \* notifications emitted by that call, in order
    before_alt,     \* history: the screen state at the last alternate enable
    round_trip,     \* history: "none", "in", "same", "differs"
    printed,        \* history: the characters printed since construction
    chunk_start,    \* history: `printed` when the current or last chunk began
    vt,             \* the parser of vt.js, for chunks read byte by byte
    fuel            \* the sequences and resize calls still to be explored

vars == <<geometry, mode, heap, my_cursor, saved_cursor, tabs, buffer, title,
          base, my_scroll, my_dirty, saved_screen, pc, call, err, emitted,
          before_alt, round_trip, printed, chunk_start, vt, fuel>>

My ==
    [geometry |-> geometry, mode |-> mode, heap |-> heap, cursor |-> my_cursor,
     saved_cursor |-> saved_cursor, tabs |-> tabs, buffer |-> buffer,
     title |-> title, base |-> base, scroll |-> my_scroll, dirty |-> my_dirty,
     saved_screen |-> saved_screen, err |-> err, emitted |-> emitted,
     before_alt |-> before_alt, round_trip |-> round_trip, vt |-> vt]

Commit(t) ==
    /\ geometry' = t.geometry
    /\ mode' = t.mode
    /\ heap' = t.heap
    /\ my_cursor' = t.cursor
    /\ saved_cursor' = t.saved_cursor
    /\ tabs' = t.tabs
    /\ buffer' = t.buffer
    /\ title' = t.title
    /\ base' = t.base
    /\ my_scroll' = t.scroll
    /\ my_dirty' = t.dirty
    /\ saved_screen' = t.saved_screen
    /\ err' = t.err
    /\ emitted' = t.emitted
    /\ before_alt' = t.before_alt
    /\ round_trip' = t.round_trip
    /\ vt' = t.vt

\* the members before init() runs reset()
Unset(cols, rows) ==
    [geometry |-> <<cols, rows>>, mode |-> {}, heap |-> [r \in Refs |-> Free],
     cursor |-> Null, saved_cursor |-> Null, tabs |-> {}, buffer |-> <<>>,
     title |-> <<>>, base |-> 0, scroll |-> [top |-> 0, bottom |-> 0],
     dirty |-> <<>>, saved_screen |-> NoScreen, err |-> FALSE,
     emitted |-> <<>>, before_alt |-> <<>>, round_trip |-> "none",
     vt |-> VtInit]

\* term({pty, cols, rows}): init() registers the handlers and calls reset()
Constructed(cols, rows) == Canon(reset(Unset(cols, rows)))

\* history: something other than printing has happened since construction
Untracked == <<"untracked">>

InitWith(t, hist, steps) ==
    /\ geometry = t.geometry
    /\ mode = t.mode
    /\ heap = t.heap
    /\ my_cursor = t.cursor
    /\ saved_cursor = t.saved_cursor
    /\ tabs = t.tabs
    /\ buffer = t.buffer
    /\ title = t.title
    /\ base = t.base
    /\ my_scroll = t.scroll
    /\ my_dirty = t.dirty
    /\ saved_screen = t.saved_screen
    /\ err = t.err
    /\ emitted = t.emitted
    /\ before_alt = t.before_alt
    /\ round_trip = t.round_trip
    /\ vt = t.vt
    /\ pc = "idle"
    /\ call = "construct"
    /\ printed = hist
    /\ chunk_start = hist
    /\ fuel = steps

Init ==
    \E cols \in 1..MaxCols, rows \in 1..MaxRows :
        InitWith(Constructed(cols, rows), <<>>, MaxSteps)

(***************************************************************************)
(* The pty data handler: vt.read(buf) dispatches the sequences of the      *)
(* chunk one after the other, then the handler emits `refresh`.  A chunk   *)
(* is a series of complete sequences, and printable text is dispatched one *)
(* character at a time (the print handler loops over put_char).  When a    *)
(* dispatch throws, the rest of the chunk is dropped; the chunks fed after *)
(* it are those that begin with a character the parser function left in    *)
(* place ignores, so that the sequences after it are read as written.      *)
(***************************************************************************)
PtyData ==
    /\ pc = "idle"
    /\ pc' = "read"
    /\ call' = "data"
    /\ err' = FALSE
    /\ emitted' = <<>>
    /\ chunk_start' = printed
    /\ UNCHANGED <<geometry, mode, heap, my_cursor, saved_cursor, tabs, buffer,
                   title, base, my_scroll, my_dirty, saved_screen, before_alt,
                   round_trip, printed, vt, fuel>>

\* one dispatch of vt.read's loop has left the members t
Dispatched(t) ==
    /\ pc = "read"
    /\ ~err
    /\ fuel > 0
    /\ fuel' = fuel - 1
    /\ Commit(t)
    /\ UNCHANGED <<pc, call, chunk_start>>

Feed(t) == Dispatched(Canon(t))

PrintText(chars) ==
    \E c \in chars :
        /\ Feed(on_print(My, <<c>>))
        /\ printed' = IF printed = Untracked THEN Untracked ELSE Append(printed, c)

Other(t) == Feed(t) /\ printed' = Untracked

\* history: a sequence other than text recorded, by its name, among the
\* characters printed
Tracked(t, seq) ==
    /\ Feed(t)
    /\ printed' = IF printed = Untracked THEN Untracked ELSE Append(printed, seq)

LF == Other(CC1_LF(My))

DECSC == Other(ESC_7(My))

DECRC == Other(ESC_8(My))

RIS == Other(ESC_c(My))

Params == {Empty} \cup 0..MaxParam

ICH == \E n \in {Empty} : Other(CSI_ICH(My, <<n>>))

CUF == \E n \in 1..MaxParam : Other(CSI_CUF(My, <<n>>))

CUP == \E r \in 1..MaxRows, c \in 1..(MaxCols + 1) : Other(CSI_CUP(My, <<r, c>>))

DCH == \E n \in {1} : Other(CSI_DCH(My, <<n>>))

SM == \E code \in {4} : Other(CSI_SM(My, <<code>>))

RM == \E code \in {4} : Other(CSI_RM(My, <<code>>))

DecModes == {6, 47, 1049}

DECSET == \E code \in DecModes : Other(CSI_DECSET(My, <<code>>))

DECRST == \E code \in DecModes : Other(CSI_DECRST(My, <<code>>))

DECSTBM == \E a \in Params, b \in Params : Other(CSI_DECSTBM(My, <<a, b>>))

\* if(my.dirty.length > 0) {emit('refresh', ...); my.dirty = [];}: `cursor()`
\* throws out of the handler when my.cursor is null
data_refresh(t) ==
    IF t.dirty = <<>> THEN t
    ELSE IF t.cursor = Null THEN Throw(t)
    ELSE [Emit(t, Refresh(t.dirty,
                          Slice(t.buffer, t.dirty[1], t.dirty[2] + 1),
                          cursor(t)))
            EXCEPT !.dirty = <<>>]

\* the end of the data handler: the try/catch has swallowed what vt.read threw
EndOfChunk ==
    /\ pc = "read"
    /\ pc' = "idle"
    /\ Commit(data_refresh([My EXCEPT !.err = FALSE]))
    /\ UNCHANGED <<call, printed, chunk_start, fuel>>

\* history: a resize ends the round trip through the alternate screen
resize_begin(t) ==
    [t EXCEPT !.err = FALSE, !.emitted = <<>>,
              !.round_trip = IF @ = "in" THEN "none" ELSE @,
              !.before_alt = IF t.round_trip = "in" THEN <<>> ELSE @]

\* the host calls term.resize(cols, rows)
Resize ==
    \E cols \in 1..MaxCols, rows \in 1..MaxRows :
        /\ pc = "idle"
        /\ fuel > 0
        /\ fuel' = fuel - 1
        /\ Commit(Canon(resize(resize_begin(My), cols, rows, FALSE)))
        /\ call' = "resize"
        /\ printed' = Untracked
        /\ UNCHANGED <<pc, chunk_start>>

Next ==
    \/ PtyData
    \/ PrintText({"a"})
    \/ LF
    \/ CUF
    \/ CUP
    \/ DCH
    \/ ICH
    \/ SM
    \/ RM
    \/ DECSET
    \/ DECRST
    \/ DECSTBM
    \/ DECSC
    \/ DECRC
    \/ RIS
    \/ EndOfChunk
    \/ Resize

Spec == Init /\ [][Next]_vars

(***************************************************************************)
(* The terminal fed printable characters only, in chunks of any length.    *)
(***************************************************************************)
MaxChars == MaxCols * MaxRows + 1

InitPrint ==
    \E cols \in 1..MaxCols, rows \in 1..MaxRows :
        InitWith(Constructed(cols, rows), <<>>, MaxChars)

NextPrint ==
    \/ PtyData
    \/ PrintText({"a", "b"})
    \/ EndOfChunk

SpecPrint == InitPrint /\ [][NextPrint]_vars

(***************************************************************************)
(* The terminal fed text, line feeds and scroll regions, on screens of up   *)
(* to MaxRows + 1 rows (a region of two rows then has a row below it).     *)
(***************************************************************************)
ScrollSteps == 6

InitScroll ==
    \E cols \in 1..(MaxCols - 1), rows \in 1..(MaxRows + 1) :
        InitWith(Constructed(cols, rows), <<>>, ScrollSteps)

NextScroll ==
    \/ PtyData
    \/ PrintText({"a"})
    \/ LF
    \/ DECSTBM
    \/ EndOfChunk

SpecScroll == InitScroll /\ [][NextScroll]_vars

(***************************************************************************)
(* The terminal fed text, the switches to and from the alternate screen    *)
(* that save and restore the cursor (DEC private mode 1049), and the save  *)
(* and the restore of the cursor themselves.                               *)
(***************************************************************************)
SC == Tracked(ESC_7(My), "ESC 7")

RC == Tracked(ESC_8(My), "ESC 8")

SMCUP == Tracked(CSI_DECSET(My, <<1049>>), "CSI ?1049h")

RMCUP == Tracked(CSI_DECRST(My, <<1049>>), "CSI ?1049l")

InitAlt ==
    \E cols \in 1..MaxCols, rows \in 1..MaxRows :
        InitWith(Constructed(cols, rows), <<>>, MaxSteps)

NextAlt ==
    \/ PtyData
    \/ PrintText({"A", "B"})
    \/ SMCUP
    \/ RMCUP
    \/ SC
    \/ RC
    \/ EndOfChunk

SpecAlt == InitAlt /\ [][NextAlt]_vars

(***************************************************************************)
(* The terminal fed text, line feeds and the requests for reports.         *)
(***************************************************************************)
DA ==
    \E args \in {<<>>, <<0>>, <<1>>} :
        Tracked(CSI_DA(My, args), IF args = <<1>> THEN "CSI 1 c" ELSE "CSI c")

DSR == \E n \in {5, 6} : Other(CSI_DSR(My, <<n>>))

DECDSR == \E n \in {5, 6} : Other(CSI_DECDSR(My, <<n>>))

InitReport ==
    \E cols \in 1..MaxCols, rows \in 1..MaxRows :
        InitWith(Constructed(cols, rows), <<>>, MaxSteps)

NextReport ==
    \/ PtyData
    \/ PrintText({"a"})
    \/ LF
    \/ DA
    \/ DSR
    \/ DECDSR
    \/ EndOfChunk

SpecReport == InitReport /\ [][NextReport]_vars

(***************************************************************************)
(* The terminal fed text and selections of the foreground colour.          *)
(***************************************************************************)
SgrFed == {<<>>, <<0>>, <<30>>, <<31>>, <<37>>, <<91>>, <<38, 5, 0>>,
           <<38, 5, 255>>}

SGR == \E args \in SgrFed : Other(CSI_SGR(My, args))

InitSgr ==
    \E cols \in 1..MaxCols, rows \in 1..MaxRows :
        InitWith(Constructed(cols, rows), <<>>, MaxSteps - 1)

NextSgr ==
    \/ PtyData
    \/ PrintText({"X"})
    \/ SGR
    \/ EndOfChunk

SpecSgr == InitSgr /\ [][NextSgr]_vars

(***************************************************************************)
(* The terminal fed chunks of bytes, read by the parser one iteration of   *)
(* the loop of vt.read at a time.                                          *)
(***************************************************************************)
MaxBytes == 4

Alphabet == {ESC, BEL, "[", "]", "(", "@", "a"}

Chunks(n) == UNION {[1..k -> Alphabet] : k \in 1..n}

\* pty data: vt.read(buf) up to my.state.reset_buf(buf)
ReadChunk ==
    \E buf \in Chunks(fuel) :
        /\ pc = "idle"
        /\ pc' = "parse"
        /\ call' = "data"
        /\ fuel' = fuel - Len(buf)
        /\ Commit([My EXCEPT !.err = FALSE, !.emitted = <<>>,
                             !.vt.buf = buf, !.vt.pos = 0])
        /\ printed' = Untracked
        /\ UNCHANGED chunk_start

\* the time limit of a string can have expired when the string began in an
\* earlier call
ReadStep(expired) ==
    /\ pc = "parse"
    /\ ~err
    /\ ~is_complete(My)
    /\ expired => vt.args # <<>>
    /\ Commit(Canon(read_iteration(My, expired)))
    /\ UNCHANGED <<pc, call, chunk_start, fuel>>

ReadLoop == \E expired \in BOOLEAN : ReadStep(expired) /\ UNCHANGED printed

\* vt.read has returned or thrown: the handler emits `refresh`; the members
\* of the parser stay as the exception left them
ReadReturn ==
    /\ pc = "parse"
    /\ err \/ is_complete(My)
    /\ pc' = "idle"
    /\ call' = IF err THEN "data thrown" ELSE "data"
    /\ Commit(data_refresh([My EXCEPT !.err = FALSE]))
    /\ UNCHANGED <<printed, chunk_start, fuel>>

\* the parser does not look at the geometry: one is enough
InitBytes == InitWith(Constructed(MaxCols, MaxRows), Untracked, MaxBytes)

NextBytes ==
    \/ ReadChunk
    \/ ReadLoop
    \/ ReadReturn

SpecBytes == InitBytes /\ [][NextBytes]_vars

(***************************************************************************)
(* The terminal fed one string that sets the window title, cut in chunks   *)
(* at any of its bytes.  The history holds the bytes fed, "|" at the end   *)
(* of each chunk, and "late" where a chunk came after the time limit of    *)
(* the string had expired.                                                 *)
(***************************************************************************)
TitleBodies == {<<"a">>, <<"a", "b">>, <<"b", ";", "2">>}

TitleFed ==
    {<<ESC, "]", c, ";">> \o body \o st :
        c \in {"0", "2"}, body \in TitleBodies, st \in {<<BEL>>, <<ESC, "\\">>}}

BytesFed == SelectSeq(printed, LAMBDA b : b \notin {"|", "late"})

IsPrefix(a, b) == Len(a) <= Len(b) /\ SubSeq(b, 1, Len(a)) = a

\* pty data: the next k bytes of one of the strings
FedPiece(strs) ==
    \E str \in strs : \E k \in 1..Len(str) :
        /\ pc = "idle"
        /\ IsPrefix(BytesFed, str)
        /\ Len(BytesFed) + k <= Len(str)
        /\ pc' = "parse"
        /\ call' = "data"
        /\ Commit([My EXCEPT !.err = FALSE, !.emitted = <<>>,
                             !.vt.buf = SubSeq(str, Len(BytesFed) + 1,
                                               Len(BytesFed) + k),
                             !.vt.pos = 0])
        /\ printed' = printed
                         \o SubSeq(str, Len(BytesFed) + 1, Len(BytesFed) + k)
                         \o <<"|">>
        /\ UNCHANGED <<chunk_start, fuel>>

ReadPiece == FedPiece(TitleFed)

ReadLoopTimed ==
    \E expired \in BOOLEAN :
        /\ ReadStep(expired)
        /\ printed' = IF expired THEN Append(printed, "late") ELSE printed

InitTitle == InitWith(Constructed(MaxCols, MaxRows), <<>>, MaxBytes)

NextTitle ==
    \/ ReadPiece
    \/ ReadLoopTimed
    \/ ReadReturn

SpecTitle == InitTitle /\ [][NextTitle]_vars

(***************************************************************************)
(* The terminal fed saves and restores of the cursor, designations of      *)
(* character sets, shifts and text.  The history holds the selectors and   *)
(* slots as they were at the last save.                                    *)
(***************************************************************************)
Charset(v) ==
    [GL |-> v.GL, GR |-> v.GR, G0 |-> v.G0, G1 |-> v.G1, G2 |-> v.G2,
     G3 |-> v.G3]

Kept(t) == Feed(t) /\ UNCHANGED printed

SaveNoted == Feed(ESC_7(My)) /\ printed' = <<Charset(vt)>>

Restore == Kept(ESC_8(My))

Shift ==
    \/ Kept(CC1_SO(My))
    \/ Kept(CC1_SI(My))
    \/ Kept(ESC_LS2(My))
    \/ Kept(ESC_LS3(My))
    \/ Kept(ESC_LS3R(My))
    \/ Kept(ESC_LS2R(My))
    \/ Kept(ESC_LS1R(My))

Designate ==
    \E code \in {"(", ")", "*", "+"}, ch \in {MapUs, MapGraphic} :
        Kept(ESC_SCS(My, code, ch))

PrintMapped == Kept(vt_print(My, <<"a">>))

InitCharset == InitWith(Constructed(MaxCols, 1), <<>>, MaxSteps)

NextCharset ==
    \/ PtyData
    \/ SaveNoted
    \/ Restore
    \/ Shift
    \/ Designate
    \/ PrintMapped
    \/ EndOfChunk

SpecCharset == InitCharset /\ [][NextCharset]_vars

(***************************************************************************)
(* The terminal fed one control sequence, complete or aborted, and the     *)
(* text after it, cut in chunks at any of its bytes.                       *)
(***************************************************************************)
CsiFed ==
    {<<ESC, "[", "C", "a">>,
     <<ESC, "[", "@", "a">>,
     <<ESC, "[", "2", ";", "2", "H", "a">>,
     <<ESC, "[", "?", "6", "h", "a">>,
     <<ESC, "[", "1", "$", "C", "a">>,
     <<ESC, "[", "1", "$", "2", "C">>,
     <<ESC, "[", "1", "$", ";", "C">>,
     <<ESC, "[", ":", "C">>}

ReadCsiPiece == FedPiece(CsiFed)

InitCsi == InitWith(Constructed(MaxCols, MaxRows), <<>>, MaxBytes)

NextCsi ==
    \/ ReadCsiPiece
    \/ ReadLoop
    \/ ReadReturn

SpecCsi == InitCsi /\ [][NextCsi]_vars

(***************************************************************************)
(* The terminal of MaxRows + 1 rows fed text, line feeds, cursor           *)
(* positions, scroll regions and the origin mode.                          *)
(***************************************************************************)
DECOM == Other(CSI_DECSET(My, <<6>>)) \/ Other(CSI_DECRST(My, <<6>>))

CUPTall ==
    \E r \in 1..(MaxRows + 1), c \in {1, MaxCols} : Other(CSI_CUP(My, <<r, c>>))

DECSTBMTall ==
    \E a \in {Empty} \cup 1..(MaxRows + 1), b \in {Empty} \cup 1..(MaxRows + 1) :
        Other(CSI_DECSTBM(My, <<a, b>>))

InitOrigin ==
    \E cols \in 1..(MaxCols - 1) :
        InitWith(Constructed(cols, MaxRows + 1), <<>>, MaxSteps)

NextOrigin ==
    \/ PtyData
    \/ PrintText({"a"})
    \/ LF
    \/ CUPTall
    \/ DECSTBMTall
    \/ DECOM
    \/ EndOfChunk

SpecOrigin == InitOrigin /\ [][NextOrigin]_vars

(***************************************************************************)
(* The terminal of MaxRows + 1 rows whose first chunk filled every row     *)
(* with the letter of the row, then fed line feeds, reverse line feeds,    *)
(* cursor positions, scroll regions, and the sequences that scroll.        *)
(***************************************************************************)
RowLetter(r) == <<"a", "b", "c", "d", "e">>[r]

\* the text that fills the rows of a fresh screen, row after row
RowLetters(cols, rows) ==
    [i \in 1..(cols * rows) |-> RowLetter(((i - 1) \div cols) + 1)]

RI == Other(ESC_RI(My))

SU == \E n \in 1..MaxParam : Other(CSI_SU(My, <<n>>))

SD == \E n \in 1..MaxParam : Other(CSI_SD(My, <<n>>))

IL == \E n \in 1..MaxParam : Other(CSI_IL(My, <<n>>))

DL == \E n \in 1..MaxParam : Other(CSI_DL(My, <<n>>))

InitLines ==
    \E cols \in 1..(MaxCols - 1) :
        InitWith(Canon(data_refresh(on_print(Constructed(cols, MaxRows + 1),
                                             RowLetters(cols, MaxRows + 1)))),
                 Untracked, MaxSteps)

NextLines ==
    \/ PtyData
    \/ LF
    \/ RI
    \/ CUPTall
    \/ DECSTBMTall
    \/ SU
    \/ SD
    \/ IL
    \/ DL
    \/ EndOfChunk

SpecLines == InitLines /\ [][NextLines]_vars

(***************************************************************************)
(* The terminal of MaxRows + 1 rows whose first chunk filled every row     *)
(* with the letter of the row, then fed cursor positions and the sequences *)
(* that erase.                                                             *)
(***************************************************************************)
CUPWide ==
    \E r \in 1..(MaxRows + 1), c \in 1..(MaxCols + 1) :
        Other(CSI_CUP(My, <<r, c>>))

ED == \E args \in {<<>>, <<0>>, <<1>>, <<2>>} : Other(CSI_ED(My, args))

EL == \E args \in {<<>>, <<0>>, <<1>>, <<2>>} : Other(CSI_EL(My, args))

ECH == \E n \in 1..MaxParam : Other(CSI_ECH(My, <<n>>))

DECALN == Other(ESC_DECALN(My))

InitErase ==
    \E cols \in 1..MaxCols :
        InitWith(Canon(data_refresh(on_print(Constructed(cols, MaxRows + 1),
                                             RowLetters(cols, MaxRows + 1)))),
                 Untracked, MaxSteps - 1)

NextErase ==
    \/ PtyData
    \/ CUPWide
    \/ ED
    \/ EL
    \/ ECH
    \/ DECALN
    \/ EndOfChunk

SpecErase == InitErase /\ [][NextErase]_vars

(***************************************************************************)
(* The properties.  "After a chunk or a resize" is pc = "idle".            *)
(***************************************************************************)
Refreshes == {i \in 1..Len(emitted) : emitted[i].type = "refresh"}

\* C1: after every processed input chunk and after every resize call (of a
\* terminal that has a cursor) the buffer holds exactly base + rows lines.
BufferHoldsBasePlusRows ==
    (pc = "idle" /\ my_cursor # Null) => Len(buffer) = base + geometry[2]

\* C2: after any sequence of chunks and resizes (of a terminal that has a
\* cursor) every line of the buffer has exactly cols glyphs.
EveryLineHasColsGlyphs ==
    (pc = "idle" /\ my_cursor # Null) =>
        \A j \in 1..Len(buffer) : Len(buffer[j]) = geometry[1]

\* C3: after any sequence of chunks and resizes there is a cursor with
\* 0 <= cursor.x <= cols and 0 <= cursor.y < rows.
CursorWithinScreen ==
    pc = "idle" =>
        /\ my_cursor # Null
        /\ 0 <= heap[my_cursor].x /\ heap[my_cursor].x <= geometry[1]
        /\ 0 <= heap[my_cursor].y /\ heap[my_cursor].y < geometry[2]

\* C4: after any sequence of DECSTBM sequences, resizes and alternate-screen
\* switches, 0 <= scroll.top <= scroll.bottom <= rows - 1.
ScrollRegionOrdered ==
    pc = "idle" =>
        /\ 0 <= my_scroll.top
        /\ my_scroll.top <= my_scroll.bottom
        /\ my_scroll.bottom <= geometry[2] - 1

\* C5: in every reachable state, cursor.x = cols implies that WRAPNEXT is set
\* in cursor.state.
RightEdgeImpliesWrapNext ==
    my_cursor # Null =>
        (heap[my_cursor].x = geometry[1] =>
            IS_SET(heap[my_cursor].state, WRAPNEXT))

\* C6: for each chunk the pty delivers, `refresh` is emitted at most once and
\* only with a non-empty dirty range.
RefreshAtMostOncePerChunk ==
    (pc = "idle" /\ call = "data") =>
        /\ Cardinality(Refreshes) <= 1
        /\ \A i \in Refreshes : emitted[i].dirty # <<>>

\* C7: alternate screen enabled, input other than alternate-screen switches
\* processed with no resize, alternate screen disabled: buffer, base, cursor
\* (x, y, attr, state), scroll region, tabs and mode are what they were just
\* before the enable.
AlternateRoundTripRestores == round_trip # "differs"

\* C8: resize(cols, rows) with the current geometry leaves every glyph of
\* every line, the number of lines and base unchanged.
ResizeToSameGeometryKeepsContents ==
    [][(pc = "idle" /\ call' = "resize" /\ fuel' # fuel /\ geometry' = geometry)
         => (buffer' = buffer /\ base' = base)]_vars

\* the glyph the i-th printed character (0-based) is to be found as
PrintedGlyph(i) == <<DEFAULT_ATTR, printed[i + 1]>>

\* C9: on a freshly constructed terminal a chunk of k printable characters,
\* 1 <= k < cols, writes them to row 0 at columns 0..k-1, leaves the rest of
\* row 0 blank and the row cols glyphs long, emits exactly one refresh, with
\* dirty range [0, 0], and leaves the cursor at (k, 0).
FirstChunkOnRowZero ==
    (/\ pc = "idle" /\ call = "data"
     /\ printed # Untracked /\ chunk_start = <<>>
     /\ 1 <= Len(printed) /\ Len(printed) < geometry[1])
    =>
    /\ Len(buffer[1]) = geometry[1]
    /\ \A i \in 0..(geometry[1] - 1) :
          buffer[1][i + 1] = IF i < Len(printed) THEN PrintedGlyph(i)
                             ELSE <<DEFAULT_ATTR, " ">>
    /\ Cardinality(Refreshes) = 1
    /\ \A i \in Refreshes : emitted[i].dirty = <<0, 0>>
    /\ my_cursor # Null
    /\ cursor(My) = <<Len(printed), 0>>

\* C9: a first chunk of two characters has been processed on three columns
FirstChunkOfTwoProcessed ==
    /\ pc = "idle" /\ call = "data"
    /\ chunk_start = <<>>
    /\ printed = <<"a", "b">>
    /\ geometry[1] = 3

\* C10: on a fresh terminal with WRAP on, N <= rows * cols characters printed:
\* the i-th (0-based) is at row i \div cols, column i % cols, and when N is
\* not a multiple of cols the cursor is at (N % cols, N \div cols) with
\* WRAPNEXT clear.
PrintedFillsRowsInOrder ==
    (/\ printed # Untracked
     /\ IS_SET(mode, WRAP)
     /\ Len(printed) <= geometry[1] * geometry[2])
    =>
    /\ base = 0
    /\ \A i \in 0..(Len(printed) - 1) :
          /\ (i \div geometry[1]) + 1 <= Len(buffer)
          /\ (i % geometry[1]) + 1 <= Len(buffer[(i \div geometry[1]) + 1])
          /\ buffer[(i \div geometry[1]) + 1][(i % geometry[1]) + 1]
                = PrintedGlyph(i)
    /\ (Len(printed) % geometry[1] # 0) =>
          /\ my_cursor # Null
          /\ cursor(My) = <<Len(printed) % geometry[1],
                            Len(printed) \div geometry[1]>>
          /\ ~IS_SET(heap[my_cursor].state, WRAPNEXT)

\* C10: four characters have wrapped onto the second row of three columns
WrappedOntoSecondRow ==
    /\ printed # Untracked
    /\ Len(printed) = 4
    /\ geometry = <<3, 2>>
    /\ IS_SET(mode, WRAP)

\* C11: with scroll.top = 0 and scroll.bottom above the last row, a line feed
\* with the cursor on the bottom margin increments base by one, inserts one
\* blank line at the bottom-margin screen row, keeps the screen rows below the
\* bottom margin at the same screen coordinates, and keeps every earlier line
\* of the buffer at its absolute row.
LineFeedAtBottomMarginScrollsRegion ==
    [][(/\ LF
        /\ my_cursor # Null
        /\ Len(buffer) = base + geometry[2]
        /\ my_scroll.top = 0
        /\ my_scroll.bottom < geometry[2] - 1
        /\ heap[my_cursor].y = my_scroll.bottom)
       =>
       (/\ base' = base + 1
        /\ Len(buffer') = Len(buffer) + 1
        /\ buffer'[base' + my_scroll.bottom + 1]
              = [i \in 1..geometry[1] |-> <<heap[my_cursor].attr, " ">>]
        /\ \A r \in (my_scroll.bottom + 1)..(geometry[2] - 1) :
              buffer'[base' + r + 1] = buffer[base + r + 1]
        /\ \A j \in 1..(base + my_scroll.bottom + 1) :
              buffer'[j] = buffer[j])]_vars

\* C11: on one column and three rows, three lines were written, the region
\* set to rows 0..1, and a line feed on the bottom margin has scrolled: the
\* blank line is above the third line, which is still the last screen row
ScrolledAboveLastRow ==
    /\ geometry = <<1, 3>>
    /\ my_scroll = [top |-> 0, bottom |-> 1]
    /\ base = 1
    /\ buffer = << <<(<<DEFAULT_ATTR, "a">>)>>, <<(<<DEFAULT_ATTR, "a">>)>>,
                   <<(<<DEFAULT_ATTR, " ">>)>>, <<(<<DEFAULT_ATTR, "a">>)>> >>

\* C12: CSI t ; b r (t, b >= 1) sets scroll.top = t - 1 and scroll.bottom =
\* b - 1, each clamped to [0, rows - 1], and moves the cursor home; so CSI 1 ;
\* rows r after a region with a lower top margin restores {0, rows - 1}.
DecstbmSetsBothMargins ==
    [][\A a \in 1..MaxParam, b \in 1..MaxParam :
          (my_cursor # Null /\ Other(CSI_DECSTBM(My, <<a, b>>))) =>
             /\ my_scroll' = [top |-> clamp(a - 1, 0, geometry[2] - 1),
                              bottom |-> clamp(b - 1, 0, geometry[2] - 1)]
             /\ my_cursor' # Null
             /\ heap'[my_cursor'].x = 0
             /\ heap'[my_cursor'].y = 0]_vars

\* the alternate(...) notifications emitted by the current call, in order
Alternates == SelectSeq(emitted, LAMBDA e : e.type = "alternate")

\* C13: print 'A', CSI ?1049h, print 'B', CSI ?1049l on a fresh terminal:
\* alternate(true) is emitted once and then alternate(false) once (seen when
\* the four arrive in one chunk), row 0 begins with 'A', no 'B' is anywhere
\* in the buffer, and the cursor is where it was just before CSI ?1049h.
AlternateScreenSwitchAndBack ==
    printed = <<"A", "CSI ?1049h", "B", "CSI ?1049l">>
    =>
    /\ ~err
    /\ (chunk_start = <<>>) =>
          (/\ Len(Alternates) = 2
           /\ Alternates[1].arg = <<TRUE>>
           /\ Alternates[2].arg = <<FALSE>>)
    /\ Len(buffer) >= 1
    /\ buffer[1][1] = <<DEFAULT_ATTR, "A">>
    /\ \A j \in 1..Len(buffer) : \A i \in 1..Len(buffer[j]) :
          buffer[j][i][2] # "B"
    /\ my_cursor # Null
    /\ cursor(My) = cursor(on_print(Constructed(geometry[1], geometry[2]), <<"A">>))

\* C13: the four sequences have been processed in one chunk on two columns
SwitchedAndBackInOneChunk ==
    /\ printed = <<"A", "CSI ?1049h", "B", "CSI ?1049l">>
    /\ chunk_start = <<>>
    /\ pc = "idle"
    /\ geometry[1] = 2

\* C14: CSI c and CSI 0 c cause exactly one pty write, of ESC [ ? 1 ; 2 c,
\* and change nothing in buffer, base, cursor, mode, scroll region or tabs,
\* and mark nothing dirty: a chunk of this sequence only ends with no refresh.
DeviceAttributesOnlyWrites ==
    [][/\ \A args \in {<<>>, <<0>>} :
            Tracked(CSI_DA(My, args), "CSI c") =>
               /\ emitted' = Append(emitted, Notify("pty.write", <<"\\x1b[?1;2c">>))
               /\ UNCHANGED <<buffer, base, heap, my_cursor, mode, my_scroll,
                              tabs, my_dirty>>
       /\ (EndOfChunk /\ printed = <<"CSI c">> /\ chunk_start = <<>>) =>
            emitted' = <<Notify("pty.write", <<"\\x1b[?1;2c">>)>>]_vars

\* C14: a chunk holding one request for the device attributes, and nothing
\* else since construction, has been processed
DeviceAttributesChunkProcessed ==
    /\ pc = "idle" /\ call = "data"
    /\ printed = <<"CSI c">> /\ chunk_start = <<>>
    /\ Len(emitted) = 1

\* C16: CSI 6 n and CSI ? 6 n cause one pty write of ESC [ r ; c R with
\* r = cursor.y + 1 and c = cursor.x + 1.
CursorPositionReported ==
    [][(my_cursor # Null /\ (Other(CSI_DSR(My, <<6>>)) \/ Other(CSI_DECDSR(My, <<6>>))))
        => emitted' = Append(emitted,
                             Notify("pty.write",
                                    <<Report(heap[my_cursor].y + 1,
                                             heap[my_cursor].x + 1)>>))]_vars

\* the foreground index CSI m with `args` is to select: k for 30 + k, 8 + k
\* for 90 + k, N for 38;5;N, and the default 257 for 0 or no parameter
SgrForeground(args) ==
    IF args = <<>> \/ args = <<0>> THEN 257
    ELSE IF Len(args) = 3 THEN args[3]
    ELSE IF args[1] >= 90 THEN args[1] - 90 + 8
    ELSE args[1] - 30

\* C15: after SGR 30+k, SGR 90+k or SGR 38;5;N the cursor's attr, which the
\* glyphs printed afterwards carry, has foreground index k, 8+k or N in bits
\* 9-17, whatever foreground was selected before, with the background and
\* the flags unchanged; after SGR 0 it is the default attr.
SgrSelectsForeground ==
    [][\A args \in SgrFed :
          (my_cursor # Null /\ Other(CSI_SGR(My, args))) =>
             /\ my_cursor' # Null
             /\ heap'[my_cursor'].attr =
                   IF args = <<>> \/ args = <<0>> THEN DEFAULT_ATTR
                   ELSE (heap[my_cursor].attr % 512)
                        + 512 * SgrForeground(args)
                        + 262144 * (heap[my_cursor].attr \div 262144)]_vars

\* C17: every byte of every chunk is consumed by the parser before the data
\* handler emits refresh and returns: no sequence raises an error that cuts
\* the chunk short.
EveryByteConsumed ==
    pc = "idle" => (call # "data thrown" /\ is_complete(My))

\* the bytes still to be read, those of an unfinished string counted with
\* them, twice, plus one while the string routine has bytes to read
Measure(v) ==
    2 * ((IF v.fun = "parse_osc" /\ v.args # <<>> THEN Len(v.args[1]) ELSE 0)
         + (IF v.buf = NullBuf \/ Len(v.buf) <= v.pos THEN 0
            ELSE Len(v.buf) - v.pos))
    + (IF v.fun = "parse_osc" /\ v.buf # NullBuf /\ Len(v.buf) > v.pos
       THEN 1 ELSE 0)

\* C18: every iteration of the loop of vt.read changes at least one of buf,
\* pos or fun, so 'Parser `fun` failed to alter state' is never raised, and
\* vt.read terminates: every iteration that does not throw brings the bytes
\* left to read (Measure) down, also when an aborted string is handed back to
\* the default routine.
ReadAltersStateAndTerminates ==
    [][(pc = "parse" /\ pc' = "parse") =>
          /\ ~vt'.stuck
          /\ err' \/ Measure(vt') < Measure(vt)
          /\ err' \/ vt'.fun # vt.fun \/ vt'.buf # vt.buf \/ vt'.pos # vt.pos]_vars

\* C18: a string has just been aborted and its text handed back to the
\* default routine as the buffer to read
StringHandedBack ==
    /\ pc = "parse"
    /\ ~vt.ret
    /\ vt.fun = "parse_unknown"
    /\ vt.pos = 0
    /\ vt.buf # NullBuf

\* C19: save cursor, then prints (any movements), then restore cursor: the
\* cursor's x, y, attr and state are those it had at the save; here the save
\* is the first thing a fresh terminal is fed, so they are those of the fresh
\* cursor.
RestoreBringsBackSavedCursor ==
    (/\ Len(printed) >= 2
     /\ printed[1] = "ESC 7"
     /\ printed[Len(printed)] = "ESC 8"
     /\ \A i \in 2..(Len(printed) - 1) : printed[i] \in {"A", "B"})
    =>
    /\ my_cursor # Null
    /\ heap[my_cursor] = [x |-> 0, y |-> 0, attr |-> DEFAULT_ATTR, state |-> {}]

\* C20: in every refresh notification 0 <= dirty[0] <= dirty[1] <
\* buffer.length, and slice is exactly the dirty[1] - dirty[0] + 1 buffer
\* lines at the absolute rows dirty[0]..dirty[1] (the slice is taken from the
\* buffer with these bounds, so it falls short exactly when they pass its end).
RefreshSliceCoversDirtyRange ==
    \A i \in Refreshes :
        /\ 0 <= emitted[i].dirty[1]
        /\ emitted[i].dirty[1] <= emitted[i].dirty[2]
        /\ Len(emitted[i].slice) = emitted[i].dirty[2] - emitted[i].dirty[1] + 1

\* the title(...) notifications emitted by the current call, in order
TitleEvents == SelectSeq(emitted, LAMBDA e : e.type = "title")

\* the text of a title string: what lies between ESC ] c ; and the terminator
TitleText(str) ==
    SubSeq(str, 5, Len(str) - (IF str[Len(str)] = BEL THEN 1 ELSE 2))

\* nothing has been printed on the screen
ScreenBlank ==
    \A j \in 1..Len(buffer) : \A i \in 1..Len(buffer[j]) : buffer[j][i][2] = " "

\* C21: an OSC 0 or OSC 2 string terminated by BEL or by ESC \, in one chunk
\* or cut in chunks anywhere but inside its terminator, each chunk arriving
\* within the time limit: while it is incomplete no title is set or notified;
\* once its last chunk is processed title() is the text after the first ';',
\* the call has emitted title(text) exactly once, and the parser is back at
\* the default routine; at no time is any of it printed on the screen.
TitleSetByOscString ==
    \A str \in TitleFed :
        (/\ IsPrefix(BytesFed, str)
         /\ \A i \in 1..Len(printed) : printed[i] # "late"
         /\ \A i \in 2..(Len(printed) - 1) :
               ~(printed[i] = ESC /\ printed[i + 1] = "|"))
        =>
        /\ ~err
        /\ ScreenBlank
        /\ (BytesFed # str) => (title = <<>> /\ TitleEvents = <<>>)
        /\ (BytesFed = str /\ pc = "idle") =>
              /\ title = <<TitleText(str)>>
              /\ TitleEvents = <<Notify("title", <<TitleText(str)>>)>>
              /\ vt.fun = "parse_unknown"
              /\ call = "data"

\* C21: the string ESC ] 0 ; a b ESC \ has been processed in three chunks,
\* its text cut between a and b and before the terminator
TitleSetFromThreeChunks ==
    /\ printed = <<ESC, "]", "0", ";", "a", "|", "b", "|", ESC, "\\", "|">>
    /\ pc = "idle"
    /\ title = << <<"a", "b">> >>

\* the members at the moment the handler emits alternate(true), and at the
\* moment it emits alternate(false)
AtAlternateTrue(t) == alt_clear(alt_save(t))

AtAlternateFalse(t) == alt_unset_emit(alt_restore(t))

\* C22: when alternate(true) is emitted the buffer is empty and ALTSCREEN is
\* not yet set; when alternate(false) is emitted the saved buffer, base,
\* cursor, scroll region, tabs and mode are restored and ALTSCREEN is clear;
\* and when the handler returns after alternate(false) the dirty range is
\* empty.
AlternateEmittedAtTheRightMoment ==
    [][/\ Other(CSI_DECSET(My, <<47>>)) =>
            /\ AtAlternateTrue(My).emitted
                  = Append(emitted, Notify("alternate", <<TRUE>>))
            /\ AtAlternateTrue(My).buffer = <<>>
            /\ ~IS_SET(AtAlternateTrue(My).mode, ALTSCREEN)
       /\ (Other(CSI_DECRST(My, <<47>>)) /\ saved_screen.set) =>
            /\ AtAlternateFalse(My).emitted
                  = Append(emitted, Notify("alternate", <<FALSE>>))
            /\ AtAlternateFalse(My).buffer
                  = (IF saved_screen.buffer_alias THEN buffer
                     ELSE saved_screen.buffer)
            /\ AtAlternateFalse(My).base = saved_screen.base
            /\ AtAlternateFalse(My).cursor = saved_screen.cursor
            /\ AtAlternateFalse(My).scroll
                  = (IF saved_screen.scroll_alias THEN my_scroll
                     ELSE saved_screen.scroll)
            /\ AtAlternateFalse(My).tabs
                  = (IF saved_screen.tabs_alias THEN tabs ELSE saved_screen.tabs)
            /\ AtAlternateFalse(My).mode = UNSET(saved_screen.mode, ALTSCREEN)
            /\ my_dirty' = <<>>]_vars

\* C23: with INSERT set and the cursor before the last column (WRAPNEXT clear,
\* the row cols glyphs long), printing a character leaves the row with the
\* glyphs before the cursor, the new glyph, and the glyphs from the cursor
\* column on shifted right by one, less the glyph of the last column: cols
\* glyphs.
InsertModeShiftsAndDiscardsLast ==
    [][(/\ PrintText({"a"})
        /\ my_cursor # Null
        /\ IS_SET(mode, INSERT)
        /\ ~IS_SET(heap[my_cursor].state, WRAPNEXT)
        /\ heap[my_cursor].x + 1 < geometry[1]
        /\ base + heap[my_cursor].y < Len(buffer)
        /\ Len(buffer[base + heap[my_cursor].y + 1]) = geometry[1])
       =>
       (/\ Len(buffer'[base + heap[my_cursor].y + 1]) = geometry[1]
        /\ buffer'[base + heap[my_cursor].y + 1] =
              SubSeq(buffer[base + heap[my_cursor].y + 1], 1, heap[my_cursor].x)
              \o << <<heap[my_cursor].attr, "a">> >>
              \o SubSeq(buffer[base + heap[my_cursor].y + 1],
                        heap[my_cursor].x + 1, geometry[1] - 1))]_vars

\* C24: printing a character while WRAPNEXT is clear writes the glyph at
\* (cursor.x, cursor.y), leaves cursor.y unchanged, and advances cursor.x by
\* one when cursor.x + 1 < cols, or else sets WRAPNEXT; in every mode, origin
\* mode with a top margin below row 0 included.
PrintKeepsCursorRow ==
    [][(/\ PrintText({"a"})
        /\ my_cursor # Null
        /\ ~IS_SET(heap[my_cursor].state, WRAPNEXT)
        /\ base + heap[my_cursor].y < Len(buffer))
       =>
       (/\ my_cursor' = my_cursor
        /\ Len(buffer'[base + heap[my_cursor].y + 1]) > heap[my_cursor].x
        /\ buffer'[base + heap[my_cursor].y + 1][heap[my_cursor].x + 1]
              = <<heap[my_cursor].attr, "a">>
        /\ heap'[my_cursor].y = heap[my_cursor].y
        /\ IF heap[my_cursor].x + 1 < geometry[1]
           THEN heap'[my_cursor].x = heap[my_cursor].x + 1
           ELSE /\ heap'[my_cursor].x = heap[my_cursor].x
                /\ IS_SET(heap'[my_cursor].state, WRAPNEXT))]_vars

\* C25: a line feed with cursor.y = scroll.bottom scrolls up by one (base and
\* the buffer grow by one, a blank line is at the bottom margin) and leaves
\* the cursor row unchanged; with cursor.y # scroll.bottom, a cursor below the
\* bottom margin included, it moves the cursor down one row, clamped to the
\* last row, and changes neither base nor the buffer.
NewLineScrollsOnlyAtBottomMargin ==
    [][(/\ LF
        /\ my_cursor # Null
        /\ Len(buffer) = base + geometry[2])
       =>
       (/\ my_cursor' = my_cursor
        /\ IF heap[my_cursor].y = my_scroll.bottom
           THEN /\ base' = base + 1
                /\ Len(buffer') = Len(buffer) + 1
                /\ buffer'[base' + my_scroll.bottom + 1]
                      = [i \in 1..geometry[1] |-> <<heap[my_cursor].attr, " ">>]
                /\ heap'[my_cursor].y = heap[my_cursor].y
           ELSE /\ base' = base
                /\ buffer' = buffer
                /\ heap'[my_cursor].y
                      = Min2(heap[my_cursor].y + 1, geometry[2] - 1))]_vars

\* scroll(n), n > 0, from a state with a cursor and base + rows lines: base
\* and the buffer grow by n, the screen rows scroll.bottom - n + 1 ..
\* scroll.bottom (from row 0 when n is larger) are blank, and the screen rows
\* below scroll.bottom keep their lines
ScrolledUp(n) ==
    /\ base' = base + n
    /\ Len(buffer') = Len(buffer) + n
    /\ \A r \in Max2(0, my_scroll.bottom - n + 1)..my_scroll.bottom :
          buffer'[base' + r + 1]
             = [i \in 1..geometry[1] |-> <<heap[my_cursor].attr, " ">>]
    /\ \A r \in (my_scroll.bottom + 1)..(geometry[2] - 1) :
          buffer'[base' + r + 1] = buffer[base + r + 1]

\* C26: scroll(n) with n > 0, reached by SU, by DL with the cursor inside the
\* region, and by a line feed at the bottom margin, increases base and the
\* buffer length by n, leaves n blank lines at the screen rows scroll.bottom
\* - n + 1 .. scroll.bottom, and keeps the lines of the rows below
\* scroll.bottom at the same screen coordinates.
ScrollUpInsertsBlankLinesAtBottomMargin ==
    [][\A n \in 1..MaxParam :
          /\ Other(CSI_SU(My, <<n>>)) => ScrolledUp(n)
          /\ (/\ Other(CSI_DL(My, <<n>>))
              /\ heap[my_cursor].y >= my_scroll.top
              /\ heap[my_cursor].y <= my_scroll.bottom) => ScrolledUp(n)
          /\ (LF /\ heap[my_cursor].y = my_scroll.bottom) => ScrolledUp(1)]_vars

\* C26: on one column and three rows holding a, b, c, with the region set to
\* rows 0..1, two lines have been scrolled up: a and b are history, rows 0
\* and 1 are blank, and c is still on row 2
TwoLinesScrolledAboveLastRow ==
    /\ geometry = <<1, 3>>
    /\ my_scroll = [top |-> 0, bottom |-> 1]
    /\ base = 2
    /\ buffer = << <<(<<DEFAULT_ATTR, "a">>)>>, <<(<<DEFAULT_ATTR, "b">>)>>,
                   <<(<<DEFAULT_ATTR, " ">>)>>, <<(<<DEFAULT_ATTR, " ">>)>>,
                   <<(<<DEFAULT_ATTR, "c">>)>> >>

\* scroll(-n), n > 0: base and the buffer length are unchanged, as are the
\* scrollback lines and the lines of the screen rows outside [scroll.top,
\* scroll.bottom]; the lines of the region are n rows lower, and the rows
\* scroll.top .. scroll.top + n - 1 (to scroll.bottom at most) are blank
ScrolledDown(n) ==
    /\ base' = base
    /\ Len(buffer') = Len(buffer)
    /\ \A j \in 1..base : buffer'[j] = buffer[j]
    /\ \A r \in 0..(geometry[2] - 1) :
          (r < my_scroll.top \/ r > my_scroll.bottom) =>
             buffer'[base + r + 1] = buffer[base + r + 1]
    /\ \A r \in my_scroll.top..Min2(my_scroll.top + n - 1, my_scroll.bottom) :
          buffer'[base + r + 1]
             = [i \in 1..geometry[1] |-> <<heap[my_cursor].attr, " ">>]
    /\ \A r \in (my_scroll.top + n)..my_scroll.bottom :
          buffer'[base + r + 1] = buffer[base + r - n + 1]

\* C27: scroll(n) with n < 0, reached by SD, by IL with the cursor inside the
\* region, and by a reverse line feed at the top margin, leaves base, the
\* buffer length, the scrollback and every line outside the region unchanged,
\* moves the region's lines down by |n| and fills the rows scroll.top ..
\* scroll.top + |n| - 1, capped at the region, with blank lines.
ScrollDownStaysInsideRegion ==
    [][\A n \in 1..MaxParam :
          /\ Other(CSI_SD(My, <<n>>)) => ScrolledDown(n)
          /\ (/\ Other(CSI_IL(My, <<n>>))
              /\ heap[my_cursor].y >= my_scroll.top
              /\ heap[my_cursor].y <= my_scroll.bottom) => ScrolledDown(n)
          /\ (RI /\ heap[my_cursor].y = my_scroll.top) => ScrolledDown(1)]_vars

\* C28: CSI 1 J blanks every cell of every screen row above the cursor row,
\* and the cells of the cursor row from column 0 up to the cursor, wherever
\* the cursor row is, and leaves every row below the cursor row unchanged.
\* (Stated for the columns before the cursor column.)
EraseAboveBlanksEveryRowAbove ==
    [][Other(CSI_ED(My, <<1>>)) =>
          /\ \A r \in 0..(heap[my_cursor].y - 1) :
                \A i \in 1..geometry[1] :
                   buffer'[base + r + 1][i] = <<heap[my_cursor].attr, " ">>
          /\ \A i \in 1..Min2(heap[my_cursor].x, geometry[1]) :
                buffer'[base + heap[my_cursor].y + 1][i]
                   = <<heap[my_cursor].attr, " ">>
          /\ \A r \in (heap[my_cursor].y + 1)..(geometry[2] - 1) :
                buffer'[base + r + 1] = buffer[base + r + 1]]_vars

\* the cell at column i of screen row r lies in the rectangle (x, y, w, h),
\* its corner and then its extents clamped to the screen
InRegion(i, r, x, y, w, h) ==
    /\ i >= clamp(x, 0, geometry[1] - 1)
    /\ i < Min2(clamp(x, 0, geometry[1] - 1) + w, geometry[1])
    /\ r >= clamp(y, 0, geometry[2] - 1)
    /\ r < Min2(clamp(y, 0, geometry[2] - 1) + h, geometry[2])

\* a step has cleared the rectangle (x, y, w, h) with the character ch, and
\* that only
RegionCleared(x, y, w, h, ch) ==
    /\ base' = base
    /\ my_cursor' = my_cursor
    /\ heap'[my_cursor].x = heap[my_cursor].x
    /\ heap'[my_cursor].y = heap[my_cursor].y
    /\ Len(buffer') = Len(buffer)
    /\ \A j \in 1..base : buffer'[j] = buffer[j]
    /\ \A r \in 0..(geometry[2] - 1) :
          /\ Len(buffer'[base + r + 1]) = Len(buffer[base + r + 1])
          /\ \A i \in 0..(Len(buffer[base + r + 1]) - 1) :
                buffer'[base + r + 1][i + 1] =
                   IF InRegion(i, r, x, y, w, h)
                   THEN <<heap[my_cursor].attr, ch>>
                   ELSE buffer[base + r + 1][i + 1]

\* C29: clear_region(x, y, w, h), as each sequence that makes one call of it
\* calls it (ECH n, EL 0, EL 1, EL 2, ED 2, DECALN), sets to a blank glyph
\* with the cursor's attributes, or to the fill character, exactly the cells
\* of the columns [x, x + w) and screen rows [y, y + h) after clamping to the
\* screen; no other cell, no scrollback line, and neither base nor the cursor
\* position changes.
ClearRegionClearsExactlyTheRectangle ==
    [][/\ \A n \in 1..MaxParam :
            Other(CSI_ECH(My, <<n>>)) =>
               RegionCleared(heap[my_cursor].x, heap[my_cursor].y, n, 1, " ")
       /\ Other(CSI_EL(My, <<0>>)) =>
            RegionCleared(heap[my_cursor].x, heap[my_cursor].y,
                          geometry[1] - heap[my_cursor].x, 1, " ")
       /\ Other(CSI_EL(My, <<1>>)) =>
            RegionCleared(0, heap[my_cursor].y, heap[my_cursor].x, 1, " ")
       /\ Other(CSI_EL(My, <<2>>)) =>
            RegionCleared(0, heap[my_cursor].y, geometry[1], 1, " ")
       /\ Other(CSI_ED(My, <<2>>)) =>
            RegionCleared(0, 0, geometry[1], geometry[2], " ")
       /\ Other(ESC_DECALN(My)) =>
            RegionCleared(0, 0, geometry[1], geometry[2], "E")]_vars

\* C29: on three columns and three rows holding aaa, bbb, ccc, one cell in
\* the middle of the second row has been erased
MiddleCellErased ==
    /\ geometry = <<3, 3>>
    /\ base = 0
    /\ buffer = << << <<DEFAULT_ATTR, "a">>, <<DEFAULT_ATTR, "a">>,
                      <<DEFAULT_ATTR, "a">> >>,
                   << <<DEFAULT_ATTR, "b">>, <<DEFAULT_ATTR, " ">>,
                      <<DEFAULT_ATTR, "b">> >>,
                   << <<DEFAULT_ATTR, "c">>, <<DEFAULT_ATTR, "c">>,
                      <<DEFAULT_ATTR, "c">> >> >>

\* C30: a step that ends with a move-to (CUP, LF, DECSTBM, DECSET 6 and
\* DECRST 6) leaves WRAPNEXT clear and x in [0, cols]; with ORIGIN set and
\* scroll.top <= scroll.bottom it leaves scroll.top <= cursor.y <=
\* scroll.bottom, and so does a printed character; with ORIGIN clear it leaves
\* cursor.y in [0, rows - 1]; DECSET 6 leaves the cursor at column 0 of row
\* scroll.top.
OriginModeMoveToStaysInRegion ==
    [][/\ (CUPTall \/ LF \/ DECSTBMTall \/ DECOM) =>
            /\ ~IS_SET(heap'[my_cursor'].state, WRAPNEXT)
            /\ heap'[my_cursor'].x \in 0..geometry[1]
            /\ IF IS_SET(heap'[my_cursor'].state, ORIGIN)
               THEN my_scroll'.top <= my_scroll'.bottom =>
                       /\ my_scroll'.top <= heap'[my_cursor'].y
                       /\ heap'[my_cursor'].y <= my_scroll'.bottom
               ELSE heap'[my_cursor'].y \in 0..(geometry[2] - 1)
       /\ PrintText({"a"}) =>
            /\ heap'[my_cursor'].x \in 0..geometry[1]
            /\ IF IS_SET(heap[my_cursor].state, ORIGIN)
               THEN my_scroll.top <= my_scroll.bottom =>
                       /\ my_scroll.top <= heap'[my_cursor'].y
                       /\ heap'[my_cursor'].y <= my_scroll.bottom
               ELSE heap'[my_cursor'].y \in 0..(geometry[2] - 1)
       /\ (Other(CSI_DECSET(My, <<6>>)) /\ my_scroll.top <= my_scroll.bottom) =>
            /\ IS_SET(heap'[my_cursor'].state, ORIGIN)
            /\ heap'[my_cursor'].x = 0
            /\ heap'[my_cursor'].y = my_scroll.top]_vars

\* C30: with the region of rows 1 to 2 of three, the origin mode is set and
\* the cursor is at column 0 of the top margin
CursorOnTopMarginInOriginMode ==
    /\ geometry[2] = 3
    /\ my_scroll = [top |-> 1, bottom |-> 2]
    /\ IS_SET(heap[my_cursor].state, ORIGIN)
    /\ ~IS_SET(heap[my_cursor].state, WRAPNEXT)
    /\ heap[my_cursor].y = 1
    /\ heap[my_cursor].x = 0

\* C31: a character printed while WRAPNEXT is set is written at column 0 of
\* the following row, and the row the cursor was on stays as it was, its last
\* column included: with the cursor on the bottom margin after a scroll up by
\* one, and else without any scroll (base and the number of lines unchanged).
WrapNextPrintsOnFollowingRow ==
    [][(/\ PrintText({"a"})
        /\ IS_SET(heap[my_cursor].state, WRAPNEXT)
        /\ Len(buffer) = base + geometry[2])
       =>
       IF heap[my_cursor].y = my_scroll.bottom
       THEN /\ base' = base + 1
            /\ heap'[my_cursor'].y = heap[my_cursor].y
            /\ buffer'[base + heap[my_cursor].y + 1]
                  = buffer[base + heap[my_cursor].y + 1]
            /\ buffer'[base' + heap[my_cursor].y + 1][1]
                  = <<heap[my_cursor].attr, "a">>
       ELSE /\ base' = base
            /\ Len(buffer') = Len(buffer)
            /\ heap[my_cursor].y < geometry[2] - 1 =>
                  /\ heap'[my_cursor'].y = heap[my_cursor].y + 1
                  /\ buffer'[base + heap[my_cursor].y + 1]
                        = buffer[base + heap[my_cursor].y + 1]
                  /\ buffer'[base + heap[my_cursor].y + 2][1]
                        = <<heap[my_cursor].attr, "a">>]_vars

\* the text of the string so far: what was accumulated and what the chunk
\* still holds
StringText == (IF vt.args = <<>> THEN <<>> ELSE vt.args[1]) \o peek_buf(My)

\* C32: when a call of the string routine aborts the string (it returns
\* false) within the time limit, for an escape in it that does not begin a
\* terminator, the parser is in the default routine with no byte of the string
\* left to read, nothing has been emitted and the screen is as it was.
AbortedStringIsDiscarded ==
    [][(/\ ReadStep(FALSE)
        /\ vt.fun = "parse_osc"
        /\ ~vt'.ret
        /\ \E i \in 1..(Len(StringText) - 1) :
              StringText[i] = ESC /\ StringText[i + 1] # "\\")
       =>
       (/\ vt'.fun = "parse_unknown"
        /\ vt'.buf = NullBuf \/ Len(vt'.buf) <= vt'.pos
        /\ emitted' = emitted
        /\ buffer' = buffer
        /\ title' = title)]_vars

\* the screen: the members a sequence can change, less the dirty range
Screen(t) ==
    [buffer |-> t.buffer, base |-> t.base, cursor |-> Cur(t), mode |-> t.mode,
     scroll |-> t.scroll, tabs |-> t.tabs]

\* what each of the strings fed means: its one dispatch, if it has one, and
\* the print of the text after the sequence (the key $C has no handler, and
\* a blank inserted in a blank row changes nothing)
CsiMeaning(str) ==
    CASE str = <<ESC, "[", "C", "a">> ->
            on_print(CSI_CUF(Constructed(MaxCols, MaxRows), <<>>), <<"a">>)
      [] str = <<ESC, "[", "2", ";", "2", "H", "a">> ->
            on_print(CSI_CUP(Constructed(MaxCols, MaxRows), <<2, 2>>), <<"a">>)
      [] str = <<ESC, "[", "?", "6", "h", "a">> ->
            on_print(CSI_DECSET(Constructed(MaxCols, MaxRows), <<6>>), <<"a">>)
      [] str \in {<<ESC, "[", "1", "$", "C", "a">>, <<ESC, "[", "@", "a">>} ->
            on_print(Constructed(MaxCols, MaxRows), <<"a">>)
      [] OTHER -> on_print(Constructed(MaxCols, MaxRows), <<"C">>)

\* C33: once a CSI sequence and the text after it have been read, in any
\* chunks, the screen is what the one dispatch of the key leading modifiers +
\* trailing modifiers + final byte and then the print of the text leave, and
\* the parser is in the default routine; for a sequence with a digit or ';'
\* after a trailing modifier, or with ':', it is what the print of the bytes
\* after that byte leaves: no dispatch was made.
CsiDispatchesOnceOnFinalByte ==
    (pc = "idle" /\ BytesFed \in CsiFed)
       => /\ vt.fun = "parse_unknown"
          /\ Screen(My) = Screen(CsiMeaning(BytesFed))

\* C34: a restore of the cursor made after a save leaves the selectors GL
\* and GR and the slots G0 to G3 as they were at the save, each slot holding
\* a character map, and a print after a save does not throw.
RestoreBringsBackCharacterSets ==
    [][/\ (Restore /\ printed # <<>>) =>
            /\ Charset(vt') = printed[1]
            /\ \A name \in {"G0", "G1", "G2", "G3"} :
                  Slot([vt |-> vt'], name) # Undefined
       /\ (PrintMapped /\ printed # <<>>) => ~err']_vars

(***************************************************************************)
(* The terminal on a screen wide enough for a second default tab stop,     *)
(* fed tab-stop, cursor, mode, margin, charset and reset sequences and      *)
(* resized by the host.                                                    *)
(***************************************************************************)
WideCols == 9

TabCols == {MaxCols, WideCols}

InitTabs ==
    \E cols \in TabCols, rows \in 1..MaxRows :
        InitWith(Constructed(cols, rows), Untracked, MaxSteps)

CUPTabs ==
    \E r \in 1..MaxRows, c \in {2, WideCols - 1} : Other(CSI_CUP(My, <<r, c>>))

HTS == Other(ESC_H(My))

TBC == \E p \in {Empty, 3} : Other(CSI_TBC(My, <<p>>))

SO == Other(CC1_SO(My))

ResizeTabs ==
    \E cols \in TabCols, rows \in 1..MaxRows :
        /\ pc = "idle"
        /\ fuel > 0
        /\ fuel' = fuel - 1
        /\ Commit(Canon(resize(resize_begin(My), cols, rows, FALSE)))
        /\ call' = "resize"
        /\ printed' = Untracked
        /\ UNCHANGED <<pc, chunk_start>>

NextTabs ==
    \/ PtyData
    \/ PrintText({"a"})
    \/ CUPTabs
    \/ HTS
    \/ TBC
    \/ SO
    \/ SM
    \/ DECSET
    \/ DECRST
    \/ DECSTBM
    \/ DECSC
    \/ DECRC
    \/ RIS
    \/ EndOfChunk
    \/ ResizeTabs

SpecTabs == InitTabs /\ [][NextTabs]_vars

\* every 8th column from 0 below cols
DefaultStops(cols) == {i \in 0..(cols - 1) : i % 8 = 0}

\* the state of a terminal of this geometry that has just been constructed
JustReset ==
    /\ ~err
    /\ base = 0
    /\ buffer = [i \in 1..geometry[2] |->
                    [j \in 1..geometry[1] |-> <<DEFAULT_ATTR, " ">>]]
    /\ my_cursor # Null
    /\ heap[my_cursor] = [attr |-> DEFAULT_ATTR, x |-> 0, y |-> 0, state |-> {}]
    /\ mode = {WRAP}
    /\ my_scroll = [top |-> 0, bottom |-> geometry[2] - 1]
    /\ tabs = DefaultStops(geometry[1])
    /\ Charset(vt) = [GL |-> "G0", GR |-> "G0", G0 |-> MapUs,
                      G1 |-> MapGraphic, G2 |-> MapUs, G3 |-> MapUs]

\* C35: a hard reset (ESC c) taken in any reachable state leaves base 0, a
\* buffer of rows lines of cols blank glyphs with the default attribute, the
\* cursor at (0, 0) with the default attribute and state, only WRAP in mode,
\* the scroll region {0, rows - 1}, the tab stops on every 8th column from 0
\* and G0..G3, GL, GR at their defaults.
HardResetRestoresDefaults == [][RIS => JustReset']_vars

\* C35 witness: a hard reset has been dispatched on the alternate screen
HardResetOnAlternateScreen ==
    pc = "read" /\ round_trip = "in" /\ saved_screen.set /\ JustReset

\* C36: after resize(cols, rows) the tab stops are exactly every 8th column
\* from 0 below the new cols, whatever stops HTS set or TBC cleared before.
ResizeResetsTabStops == [][ResizeTabs => tabs' = DefaultStops(geometry'[1])]_vars

(***************************************************************************)
(* The terminal fed one of a few strings of text, C0 controls, ESC and CSI *)
(* sequences, whole or cut in chunks at any of its bytes.                  *)
(***************************************************************************)
SplitFed ==
    CsiFed \cup {<<"a", LFChar, "a">>,
                 <<ESC, "7", "a", ESC, "8">>,
                 <<ESC, ESC, "[", "C">>}

ReadSplitPiece == FedPiece(SplitFed)

InitSplit == InitWith(Constructed(MaxCols, MaxRows), <<>>, MaxBytes)

NextSplit ==
    \/ ReadSplitPiece
    \/ ReadLoop
    \/ ReadReturn

SpecSplit == InitSplit /\ [][NextSplit]_vars

\* the loop of read, to its return or to what it throws
RECURSIVE read_loop(_)
read_loop(t) ==
    IF t.err \/ is_complete(t) THEN t
    ELSE read_loop(Canon(read_iteration(t, FALSE)))

\* the pty data handler called once with the whole of buf
read(t, buf) ==
    data_refresh([read_loop([t EXCEPT !.err = FALSE, !.emitted = <<>>,
                                      !.vt.buf = buf, !.vt.pos = 0])
                    EXCEPT !.err = FALSE])

\* history: the number of chunks fed
ChunksFed == Len(SelectSeq(printed, LAMBDA b : b = "|"))

\* C37: a string of text, C0 controls, ESC and CSI sequences fed in two
\* chunks cut at any byte leaves the buffer, base, cursor, mode, scroll
\* region, tab stops and parser routine that the string fed as one chunk
\* leaves.
SplitChunkSameAsWhole ==
    (pc = "idle" /\ BytesFed \in SplitFed /\ ChunksFed = 2)
       => /\ Screen(My) = Screen(read(Constructed(MaxCols, MaxRows), BytesFed))
          /\ vt.fun = read(Constructed(MaxCols, MaxRows), BytesFed).vt.fun

(***************************************************************************)
(* The terminal of MaxRows + 1 rows, each filled with its own letter, fed  *)
(* chunks of text, cursor positions, scroll regions, line feeds and the    *)
(* sequences that scroll down.  History: the buffer at the start of the    *)
(* chunk being read.                                                       *)
(***************************************************************************)
LinesStart(cols) ==
    Canon(data_refresh(on_print(Constructed(cols, MaxRows + 1),
                                RowLetters(cols, MaxRows + 1))))

InitDirty ==
    \E cols \in 1..(MaxCols - 1) :
        InitWith(LinesStart(cols), <<LinesStart(cols).buffer>>, MaxSteps)

PtyDataNoted ==
    /\ pc = "idle"
    /\ pc' = "read"
    /\ call' = "data"
    /\ err' = FALSE
    /\ emitted' = <<>>
    /\ printed' = <<buffer>>
    /\ UNCHANGED <<geometry, mode, heap, my_cursor, saved_cursor, tabs, buffer,
                   title, base, my_scroll, my_dirty, saved_screen, before_alt,
                   round_trip, chunk_start, vt, fuel>>

PrintKept == Kept(on_print(My, <<"a">>))

Place ==
    \/ \E r \in 1..(MaxRows + 1) : Kept(CSI_CUP(My, <<r, 1>>))
    \/ \E a \in {Empty, 2}, b \in {Empty, MaxRows} :
          Kept(CSI_DECSTBM(My, <<a, b>>))

LineFeed == Kept(CC1_LF(My))

ScrollDown ==
    \/ Kept(ESC_RI(My))
    \/ \E n \in 1..MaxParam : Kept(CSI_SD(My, <<n>>))
    \/ \E n \in 1..MaxParam : Kept(CSI_IL(My, <<n>>))

NextDirty ==
    \/ PtyDataNoted
    \/ PrintKept
    \/ Place
    \/ LineFeed
    \/ ScrollDown
    \/ EndOfChunk

SpecDirty == InitDirty /\ [][NextDirty]_vars

\* the absolute indexes of the lines whose glyphs are not those of `before`
ChangedLines(before, after) ==
    {i \in 0..(Min2(Len(before), Len(after)) - 1) : before[i + 1] # after[i + 1]}

\* C38: at the end of a chunk that neither resets the terminal nor switches
\* the alternate screen, if the glyphs of some buffer line are not those it
\* had at the start of the chunk, a refresh is emitted and its dirty range
\* holds the absolute index of every such line, those shifted by a scroll
\* down included.
ChangedLinesAreDirty ==
    [][(EndOfChunk /\ ChangedLines(printed[1], buffer) # {}) =>
          \E k \in 1..Len(emitted') :
             /\ emitted'[k].type = "refresh"
             /\ \A i \in ChangedLines(printed[1], buffer) :
                   emitted'[k].dirty[1] <= i /\ i <= emitted'[k].dirty[2]]_vars

(***************************************************************************)
(* The terminal fed window titles, text, hard resets and switches of the   *)
(* alternate screen.  History: the string of the last title notification.  *)
(***************************************************************************)
InitWindow ==
    \E cols \in 1..MaxCols, rows \in 1..MaxRows :
        InitWith(Constructed(cols, rows), <<>>, MaxSteps)

\* history: noted when the handler has emitted the notification
SetTitle ==
    \E text \in {<<"a">>, <<"a", "b">>} :
        /\ Feed(on_set_window_title(My, text))
        /\ emitted' = Append(emitted, Notify("title", <<text>>))
        /\ printed' = <<text>>

HardReset == Kept(ESC_c(My))

SwitchScreen ==
    \E code \in {47, 1049} :
        \/ Kept(CSI_DECSET(My, <<code>>))
        \/ Kept(CSI_DECRST(My, <<code>>))

NextWindow ==
    \/ PtyData
    \/ SetTitle
    \/ PrintKept
    \/ HardReset
    \/ SwitchScreen
    \/ EndOfChunk

SpecWindow == InitWindow /\ [][NextWindow]_vars

\* C39: title() is at all times the string of the most recent title
\* notification, or null if none was ever emitted, across hard resets and
\* switches of the alternate screen too.
TitleIsLastTitleNotified == title = printed

\* C40: a disable of the alternate screen (CSI ?47l) dispatched while the
\* ALTSCREEN bit is clear leaves the buffer, base, cursor, scroll region, tab
\* stops and mode as they are, whatever was processed since the alternate
\* screen was last left.
DisableOnMainScreenChangesNothing ==
    [][(Other(CSI_DECRST(My, <<47>>)) /\ ~IS_SET(mode, ALTSCREEN)) =>
          /\ buffer' = buffer
          /\ base' = base
          /\ (my_cursor = Null) = (my_cursor' = Null)
          /\ (my_cursor # Null) => (heap'[my_cursor'] = heap[my_cursor])
          /\ my_scroll' = my_scroll
          /\ tabs' = tabs
          /\ mode' = mode]_vars

====
